---- MODULE Spec2Model ----
(***************************************************************************)
(* A model of iherb-cli: the artifact cache (src/src/cache.rs), the        *)
(* browser navigator (src/src/scraper/navigation.rs), the pagination       *)
(* arithmetic (src/src/scraper/search.rs), the price parser                *)
(* (src/src/scraper/helpers.rs), the product extraction cascade            *)
(* (src/src/scraper/product.rs), the two commands (src/src/main.rs) and    *)
(* the browser session's close (src/src/browser/session.rs).               *)
(*                                                                         *)
(* Nine specifications share the variables:                               *)
(*   SpecNav    Navigator::navigate_with_retry and Navigator::navigate,    *)
(*              one step per await point, the page and the site being the  *)
(*              environment;                                               *)
(*   Spec       cmd_search and cmd_product over the cache, a run being a   *)
(*              sequence of invocations of the program with time passing   *)
(*              between them; navigate_with_retry is one step here, its    *)
(*              result the environment's choice;                           *)
(*   SpecSearch one invocation of cmd_search on an empty cache, over a     *)
(*              wider range of limits;                                     *)
(*   SpecPages  pages_needed applied to every limit of a range;            *)
(*   SpecParse  parse_price_str, and the search path's parse_price,        *)
(*              applied to every text of a bounded set;                    *)
(*   SpecKey    Cache::search_key for two search requests, one stored and  *)
(*              one looked up;                                             *)
(*   SpecClose  BrowserSession::close, the removal of the profile           *)
(*              directory failing or succeeding at each attempt;           *)
(*   SpecExtract  extract_product applied to every combination of a set    *)
(*              of JSON-LD blocks, JS globals, page-data blobs and DOMs;   *)
(*   SpecInvocation  one invocation of either command, over a wider range  *)
(*              of limits, on a cache that holds a fresh artifact or none. *)
(***************************************************************************)
EXTENDS Integers, Sequences, FiniteSets, TLC

\* ------------------------------------------------------------------ bounds
\* Largest max_retries handed to navigate_with_retry (the callers pass 2).
MaxRetries == 2
\* Largest limit handed to pages_needed in SpecPages.
MaxPureLimit == 150

\* ------------------------------------------------------- program constants
MAX_CLOUDFLARE_RETRIES == 3
CLOUDFLARE_WAIT_SECS == 12
\* check_interval_ms, navigation.rs:74
CHECK_INTERVAL_MS == 1000
RESULTS_PER_PAGE == 48

\* Values of --delay (config.delay_ms); 2000 is the default.
Delays == {0, 1000, 2000}

VARIABLES
    \* ---- Navigator (navigation.rs)
    npc,          \* position inside navigate_with_retry / navigate
    max_retries,  \* argument of navigate_with_retry
    delay_ms,     \* Navigator.delay_ms
    attempt,      \* loop variable of navigate_with_retry
    cf_attempt,   \* loop variable `attempt` of navigate's challenge loop
    polls,        \* iterations done of the inner wait loop of this round
    last_err,     \* Option<IherbError> of navigate_with_retry
    nav_ret,      \* what the running/last navigate call returned
    retry_ret,    \* what navigate_with_retry returned
    \* ---- Navigator, history (not program state)
    attempts,     \* result of every navigate call of this navigate_with_retry
    backoffs,     \* the backoff sleeps, [after |-> attempt, secs |-> seconds]
    checks,       \* results of is_cloudflare_challenge inside this navigate
    round_polls,  \* polls done in each finished wait round of this navigate
    clicks,       \* outcomes of the checkbox evaluate of this navigate
    \* ---- pages_needed (search.rs)
    fn_limit,     \* the argument
    fn_pages,     \* the result, -1 before the call
    \* ---- parse_price_str (helpers.rs)
    pp_in,        \* the argument, a sequence of characters
    pp_out,       \* the result, Pending before the call
    \* ---- parse_price (search.rs), on the same text
    sp_out,       \* the result, Pending before the call
    \* ---- Cache::search_key (cache.rs), for two search requests
    k_a,          \* the request whose artifact set_search stores
    k_b,          \* the request get_search looks up afterwards
    k_file,       \* the key of the artifact stored, Pending before set_search
    k_hit,        \* what get_search found: Some(key of the artifact) or None
    \* ---- BrowserSession::close (browser/session.rs)
    cl_pc,        \* position inside close
    cl_dir,       \* user_data_dir: None when absent, else Some(its entries)
    cl_attempt,   \* loop variable `attempt` of the cleanup loop
    cl_ret,       \* what close returned
    \* ---- BrowserSession::close, history (not program state)
    cl_trace,     \* the sleeps, remove_dir_all calls and log lines, in order
    \* ---- extract_product (product.rs)
    ex_pc,        \* position inside extract_product
    page,         \* the fetched page: its JSON-LD, JS globals, blob and DOM
    ex_currency,  \* the argument `currency`
    ex_ret,       \* what extract_product returned
    \* ---- extract_product, history (not program state)
    ex_pre,       \* the record of the structural source before the DOM pass
    ex_src,       \* the strategy that produced the result
    \* ---- the file system and the clock
    now,          \* SystemTime::now(), in seconds
    files,        \* the cache directory: artifact kind -> file
    \* ---- one invocation of the program (main.rs)
    pc,           \* position inside main / cmd_search / cmd_product
    cmd,          \* the command line: kind, no_cache, limit
    browser_ref,  \* Arc<Mutex<Option<BrowserSession>>>
    page_num,     \* loop variable of cmd_search
    total_pages,  \* cmd_search
    all_products, \* cmd_search
    total_results,\* cmd_search
    output,       \* what the invocation printed on stdout
    ret,          \* what the command returned to main
    \* ---- invocations, history (not program state)
    cmds,         \* invocations started
    stat,         \* the artifact as the cache lookup of this invocation found it
    cache_got,    \* what get_search / get_product returned
    write_res,    \* what set_search / set_product returned
    record,       \* the record the command built after a miss
    fetched,      \* search pages navigated to and extracted, in order
    delays,       \* rate_limit_delay calls: the page each followed
    forced,       \* per kind, the last successful invocation with --no-cache
    cut,          \* the stored search artifact holds fewer products than the
                  \* fetch that wrote it had found
    launches,     \* sessions BrowserSession::launch created in this invocation
    navs,         \* navigate_with_retry calls of this invocation
    closes        \* BrowserSession::close calls of this invocation

navVars == <<npc, max_retries, delay_ms, attempt, cf_attempt, polls, last_err,
             nav_ret, retry_ret, attempts, backoffs, checks, round_polls, clicks>>
pagesVars == <<fn_limit, fn_pages>>
parseVars == <<pp_in, pp_out, sp_out>>
exVars == <<ex_pc, page, ex_currency, ex_ret, ex_pre, ex_src>>
keyVars == <<k_a, k_b, k_file, k_hit>>
closeVars == <<cl_pc, cl_dir, cl_attempt, cl_ret, cl_trace>>
fnVars == <<pagesVars, parseVars, exVars, keyVars, closeVars>>
cmdVars == <<now, files, pc, cmd, browser_ref, page_num, total_pages,
             all_products, total_results, output, ret, cmds, stat, cache_got,
             write_res, record, fetched, delays, forced, cut, launches, navs,
             closes>>
vars == <<navVars, fnVars, cmdVars>>

\* ---------------------------------------------------------------- values
None == [tag |-> "None"]
Some(x) == [tag |-> "Some", val |-> x]
Ok(x) == [tag |-> "Ok", val |-> x]
Err(e) == [tag |-> "Err", val |-> e]
Pending == [tag |-> "Pending"]

\* IherbError::Navigation(String): n = 1 the goto message, n = 2 the content
\* message.
Navigation(n) == [kind |-> "Navigation", n |-> n]
\* IherbError::CloudflareBlocked(u32)
CloudflareBlocked(n) == [kind |-> "CloudflareBlocked", n |-> n]
\* The HTML page.content() gives in attempt n of navigate_with_retry.
Html(n) == [kind |-> "Html", n |-> n]

\* What `document.title` evaluates to: a title, or the evaluation fails.
Titles == {"iHerb", "Just a moment...", "Attention Required! | Cloudflare"}
TitleEvals == Titles \cup {"EvalErr"}

\* Navigator::is_cloudflare_challenge, on the outcome of the evaluate.
is_cloudflare_challenge(ev) ==
    IF ev = "EvalErr" THEN FALSE
    ELSE ev \in {"Just a moment...", "Attention Required! | Cloudflare"}

Last(s) == s[Len(s)]
Pow2(n) == IF n <= 0 THEN 1 ELSE 2 ^ n

\* ------------------------------------------------------------- Navigator
\* `for attempt in 1..=max_retries + 1`
\* (RetryRangeWide: the faulty variant with one attempt too many.)
RetryRangeWide(m) == 1 .. (m + 2)
RetryRange(m) == 1 .. (m + 1)

\* `if attempt == MAX_CLOUDFLARE_RETRIES { return Err(CloudflareBlocked(..)) }`
\* (ChallengeCapNever: the faulty variant without the cap.)
ChallengeCapNever(a) == FALSE
ChallengeCapReached(a) == a = MAX_CLOUDFLARE_RETRIES

\* `let total_checks = (CLOUDFLARE_WAIT_SECS * 1000) / check_interval_ms`
\* (total_checks_half_interval: the faulty variant that polls twice a second.)
total_checks_half_interval ==
    (CLOUDFLARE_WAIT_SECS * 1000) \div (CHECK_INTERVAL_MS \div 2)
total_checks == (CLOUDFLARE_WAIT_SECS * 1000) \div CHECK_INTERVAL_MS

\* `let backoff = Duration::from_secs(2u64.pow(attempt - 1))`, in seconds
\* (BackoffFromDelay: the faulty variant that scales the configured delay.)
BackoffFromDelay(a, d) == (d \div 1000) * Pow2(a - 1)
Backoff(a, d) == Pow2(a - 1)

\* `if attempt <= max_retries`
ShouldBackoff(a, m) == a <= m

\* `last_err = Some(e)`
\* (KeepFirstErr: the faulty variant that keeps the first error.)
KeepFirstErr(old, e) == IF old = None THEN Some(e) ELSE old
RecordErr(old, e) == Some(e)

\* navigate_with_retry is entered: `let mut last_err = None`, and the loop
\* takes its first value.
NavInitWith(m, d) ==
    /\ npc = "goto"
    /\ max_retries = m
    /\ delay_ms = d
    /\ attempt = 1
    /\ cf_attempt = 0
    /\ polls = 0
    /\ last_err = None
    /\ nav_ret = Pending
    /\ retry_ret = Pending
    /\ attempts = <<>>
    /\ backoffs = <<>>
    /\ checks = <<>>
    /\ round_polls = <<>>
    /\ clicks = <<>>

\* navigate returns r to navigate_with_retry.
NavigateReturns(r) ==
    /\ nav_ret' = r
    /\ npc' = "match"
    /\ attempts' = Append(attempts, r)

\* navigate, up to the challenge loop: page.goto(url), the sleep of delay_ms
\* and the readiness polling (at most 20 polls of 500 ms, which change no
\* state of the Navigator).
navigate_goto ==
    /\ npc = "goto"
    /\ \E ok \in BOOLEAN :
         IF ok
         THEN /\ npc' = "check"
              /\ cf_attempt' = 1
              /\ UNCHANGED <<nav_ret, attempts>>
         ELSE /\ NavigateReturns(Err(Navigation(1)))
              /\ UNCHANGED cf_attempt
    /\ polls' = 0
    /\ checks' = <<>>
    /\ round_polls' = <<>>
    /\ clicks' = <<>>
    /\ UNCHANGED <<max_retries, delay_ms, attempt, last_err, retry_ret, backoffs>>
    /\ UNCHANGED <<fnVars, cmdVars>>

\* One iteration of `for attempt in 1..=MAX_CLOUDFLARE_RETRIES` up to the
\* inner wait loop: the challenge check, the cap, the checkbox click.
navigate_challenge_check ==
    /\ npc = "check"
    /\ \E ev \in TitleEvals, clicked \in BOOLEAN :
         LET c == is_cloudflare_challenge(ev) IN
         /\ checks' = Append(checks, c)
         /\ IF ~c
            THEN \* break
                 /\ npc' = "content"
                 /\ UNCHANGED <<nav_ret, attempts, clicks, polls>>
            ELSE IF ChallengeCapReached(cf_attempt)
            THEN /\ NavigateReturns(Err(CloudflareBlocked(MAX_CLOUDFLARE_RETRIES)))
                 /\ UNCHANGED <<clicks, polls>>
            ELSE \* `let _ = page.evaluate(click)`: its outcome is dropped
                 /\ clicks' = Append(clicks, clicked)
                 /\ polls' = 0
                 /\ npc' = "wait"
                 /\ UNCHANGED <<nav_ret, attempts>>
    /\ UNCHANGED <<max_retries, delay_ms, attempt, cf_attempt, last_err,
                   retry_ret, backoffs, round_polls>>
    /\ UNCHANGED <<fnVars, cmdVars>>

\* The challenge loop takes its next value, or ends after the last one.
\* (NextRoundSkipsCheck: the faulty variant that reads the content right
\* after the wait.)
NextRoundSkipsCheck ==
    /\ cf_attempt' = cf_attempt
    /\ npc' = "content"
NextRound ==
    IF cf_attempt < MAX_CLOUDFLARE_RETRIES
    THEN /\ cf_attempt' = cf_attempt + 1
         /\ npc' = "check"
    ELSE /\ cf_attempt' = cf_attempt
         /\ npc' = "content"

\* One iteration of `for _ in 0..total_checks`: sleep one interval, check.
navigate_challenge_poll ==
    /\ npc = "wait"
    /\ polls < total_checks
    /\ \E ev \in TitleEvals :
         LET c == is_cloudflare_challenge(ev) IN
         /\ checks' = Append(checks, c)
         /\ IF ~c \/ polls + 1 = total_checks
            THEN \* break, or the range is exhausted
                 /\ round_polls' = Append(round_polls, polls + 1)
                 /\ polls' = 0
                 /\ NextRound
            ELSE /\ polls' = polls + 1
                 /\ UNCHANGED <<round_polls, cf_attempt, npc>>
    /\ UNCHANGED <<max_retries, delay_ms, attempt, last_err, nav_ret,
                   retry_ret, attempts, backoffs, clicks>>
    /\ UNCHANGED <<fnVars, cmdVars>>

\* `page.content().await.map_err(..)?; Ok(html)`
navigate_content ==
    /\ npc = "content"
    /\ \E ok \in BOOLEAN :
         NavigateReturns(IF ok THEN Ok(Html(attempt)) ELSE Err(Navigation(2)))
    /\ UNCHANGED <<max_retries, delay_ms, attempt, cf_attempt, polls, last_err,
                   retry_ret, backoffs, checks, round_polls, clicks>>
    /\ UNCHANGED <<fnVars, cmdVars>>

\* The `match` of navigate_with_retry on what navigate returned, the
\* backoff sleep, and the loop taking its next value or ending.
navigate_with_retry_match ==
    /\ npc = "match"
    /\ IF nav_ret.tag = "Ok"
       THEN \* `Ok(html) => return Ok(html)`
            /\ retry_ret' = nav_ret
            /\ npc' = "done"
            /\ UNCHANGED <<last_err, backoffs, attempt>>
       ELSE /\ last_err' = RecordErr(last_err, nav_ret.val)
            /\ backoffs' = IF ShouldBackoff(attempt, max_retries)
                           THEN Append(backoffs, [after |-> attempt,
                                                  secs |-> Backoff(attempt, delay_ms)])
                           ELSE backoffs
            /\ IF attempt + 1 \in RetryRange(max_retries)
               THEN /\ attempt' = attempt + 1
                    /\ npc' = "goto"
                    /\ retry_ret' = retry_ret
               ELSE \* `Err(last_err.unwrap())`
                    /\ attempt' = attempt
                    /\ npc' = "done"
                    /\ retry_ret' = Err(last_err'.val)
    /\ UNCHANGED <<max_retries, delay_ms, cf_attempt, polls, nav_ret, attempts,
                   checks, round_polls, clicks>>
    /\ UNCHANGED <<fnVars, cmdVars>>

\* ------------------------------------------------------------ pages_needed
\* `(limit + RESULTS_PER_PAGE - 1) / RESULTS_PER_PAGE` on usize; the limits of
\* the model are far below the width of usize.
\* (pages_needed_floor: the faulty variant that rounds down and adds one.)
pages_needed_floor(limit) == limit \div RESULTS_PER_PAGE + 1
pages_needed(limit) == (limit + RESULTS_PER_PAGE - 1) \div RESULTS_PER_PAGE

\* ------------------------------------------------------------------ Cache
PRODUCT_TTL == 24 * 60 * 60
SEARCH_TTL == 60 * 60

\* One product id and one (query, sort, category) triple: one artifact path
\* per kind, product_<id>.json and search_<key>.json.
Kinds == {"search", "product"}
NoFile == [tag |-> "NoFile"]
File(m, d) == [tag |-> "File", mtime |-> m, data |-> d]
\* Content that serde_json::from_str rejects (a write that failed midway).
Corrupt == [tag |-> "Corrupt"]

OkUnit == [tag |-> "Ok"]
\* IherbError::Cache(String)
CacheError == [kind |-> "Cache", n |-> 0]

\* Cache::new
\* (Cache_new_reads: the faulty variant that ignores no_cache.)
Cache_new_reads(no_cache) == [read_enabled |-> TRUE]
Cache_new(no_cache) == [read_enabled |-> ~ no_cache]

\* `if age > ttl { return None; }`
\* (ExpiredAtTtl: the faulty variant that expires at the boundary.)
ExpiredAtTtl(age, ttl) == age >= ttl
Expired(age, ttl) == age > ttl

\* Cache::read_cached at time t: metadata, modified, duration_since (an error
\* when the file is newer than the clock), the ttl, read and parse.
read_cached(file, ttl, t) ==
    IF file = NoFile THEN None
    ELSE IF t < file.mtime THEN None
    ELSE IF Expired(t - file.mtime, ttl) THEN None
    ELSE IF file.data = Corrupt THEN None
    ELSE Some(file.data)

get_product(cache, fs, t) ==
    IF ~ cache.read_enabled THEN None
    ELSE read_cached(fs["product"], PRODUCT_TTL, t)

get_search(cache, fs, t) ==
    IF ~ cache.read_enabled THEN None
    ELSE read_cached(fs["search"], SEARCH_TTL, t)

\* How the file system answers a write: done; refused before the file is
\* touched (create_dir_all or the open fails); or failed midway, the file
\* left truncated.
WriteOutcomes == {"ok", "fail", "partial"}

\* Cache::write_cached at time t: the file system after it, and its result.
write_cached(fs, kind, data, t, outcome) ==
    IF outcome = "ok"
    THEN [files |-> [fs EXCEPT ![kind] = File(t, data)], res |-> OkUnit]
    ELSE IF outcome = "partial"
    THEN [files |-> [fs EXCEPT ![kind] = File(t, Corrupt)], res |-> Err(CacheError)]
    ELSE [files |-> fs, res |-> Err(CacheError)]

set_product(fs, data, t, outcome) == write_cached(fs, "product", data, t, outcome)
set_search(fs, data, t, outcome) == write_cached(fs, "search", data, t, outcome)

\* --------------------------------------------------------------- commands
\* Invocations of the program in one run of Spec.
MaxCmds == 2
\* Largest --limit of SpecSearch.
MaxLimit == 97

\* Seconds between the end of one invocation and the start of the next; the
\* clock does not run backwards.
Gaps == {SEARCH_TTL - 1, SEARCH_TTL, SEARCH_TTL + 1, PRODUCT_TTL, PRODUCT_TTL + 1}
\* --limit in Spec, where invocations follow one another.
InvokeLimits == {3, 10}
\* --limit in SpecSearch (one invocation).
SearchLimits == {0, 1, 3, 10, RESULTS_PER_PAGE, RESULTS_PER_PAGE + 1,
                 2 * RESULTS_PER_PAGE, MaxLimit}
\* Products extract_search finds on one fetched page.
PageYields == {0, 3, RESULTS_PER_PAGE, RESULTS_PER_PAGE + 1}
\* SearchResult.total_results as one page reports it.
TotalCounts == {None, Some(1000)}
\* The ProductDetail extract_product builds from the page, as the page is at
\* the time of the fetch.
ProductDetails == {[product_id |-> "p", name |-> "A"], [product_id |-> "p", name |-> "B"]}

\* Errors of the commands besides the Navigator's.
BrowserLaunch == [kind |-> "BrowserLaunch", n |-> 0]
ChromeResolve == [kind |-> "ChromeDownload", n |-> 0]
NewPage == [kind |-> "NewPage", n |-> 0]
ProductNotFound == [kind |-> "ProductNotFound", n |-> 0]
NoSearchResults == [kind |-> "NoSearchResults", n |-> 0]

\* The max_retries of `navigate_with_retry(&page, &url, 2)`.
CallerMaxRetries == 2

\* What navigate_with_retry(&page, &url, 2) returns to a command: the page
\* content of one of its attempts, or the error of its last attempt.
NavResults == {Ok(Html(n)) : n \in RetryRange(CallerMaxRetries)}
                 \cup {Err(Navigation(1)), Err(Navigation(2)),
                       Err(CloudflareBlocked(MAX_CLOUDFLARE_RETRIES))}

\* Vec::truncate
\* (truncate_not: the faulty variant that keeps everything.)
truncate_not(v, n) == v
truncate(v, n) == IF Len(v) > n THEN SubSeq(v, 1, n) ELSE v

\* `let _ = cache.set_search(..)` / `let _ = cache.set_product(..)`: the
\* result is dropped, the command goes on.
\* (propagate_result: the faulty variant with `?` in place of `let _ =`.)
propagate_result(r) == r
discard_result(r) == OkUnit

\* `if all_products.len() >= limit { break; }`
ReachedLimit(len, limit) == len >= limit

\* `if all_products.is_empty() { anyhow::bail!(NoSearchResults) }`
\* (never_bails: the faulty variant that goes on with an empty list.)
never_bails(products) == FALSE
is_empty_bail(products) == products = <<>>

\* `if page_result.products.is_empty() { break; }`
\* (never_breaks: the faulty variant that goes on after an empty page.)
never_breaks(products) == FALSE
is_empty_break(products) == products = <<>>

\* `let browser_ref = Arc::new(Mutex::new(None))`: main starts without a
\* session.
\* (main_browser_ref_eager: the faulty variant that starts with a session.)
main_browser_ref_eager == Some([open |-> TRUE])
main_browser_ref == None

\* An invocation starts: main up to the call of the command.
CmdStart(k, nc, l) ==
    /\ cmd = [kind |-> k, no_cache |-> nc, limit |-> l]
    /\ pc = k
    /\ browser_ref = main_browser_ref
    /\ launches = 0
    /\ navs = 0
    /\ closes = 0
    /\ page_num = 0
    /\ total_pages = 0
    /\ all_products = <<>>
    /\ total_results = None
    /\ output = None
    /\ ret = Pending
    /\ stat = NoFile
    /\ cache_got = Pending
    /\ write_res = Pending
    /\ record = None
    /\ fetched = <<>>
    /\ delays = <<>>

invoke ==
    /\ pc \in {"idle", "end"}
    /\ cmds < MaxCmds
    /\ \E gap \in (IF pc = "idle" THEN {0} ELSE Gaps), k \in Kinds,
          nc \in BOOLEAN, l \in InvokeLimits :
         /\ now' = now + gap
         /\ cmd' = [kind |-> k, no_cache |-> nc,
                    limit |-> IF k = "search" THEN l ELSE 0]
         /\ pc' = k
    /\ cmds' = cmds + 1
    /\ browser_ref' = main_browser_ref
    /\ launches' = 0
    /\ navs' = 0
    /\ closes' = 0
    /\ page_num' = 0
    /\ total_pages' = 0
    /\ all_products' = <<>>
    /\ total_results' = None
    /\ output' = None
    /\ ret' = Pending
    /\ stat' = NoFile
    /\ cache_got' = Pending
    /\ write_res' = Pending
    /\ record' = None
    /\ fetched' = <<>>
    /\ delays' = <<>>
    /\ UNCHANGED <<files, forced, cut>>
    /\ UNCHANGED <<navVars, fnVars>>

\* History: the last successful --no-cache invocation per kind, and whether
\* the artifact it wrote is the one stored.
ForcedAfter(kind, rec, outcome, succeeded) ==
    IF cmd.no_cache /\ succeeded
    THEN [forced EXCEPT ![kind] =
             Some([at |-> now, data |-> rec, stored |-> (outcome = "ok")])]
    ELSE IF outcome \in {"ok", "partial"} /\ forced[kind] # None
    THEN [forced EXCEPT ![kind] = Some([@.val EXCEPT !.stored = FALSE])]
    ELSE forced

\* History: whether the search artifact now stored is shorter than what the
\* fetch that wrote it had found (found products, kept products, and how the
\* write went).
CutAfter(found, kept, outcome) ==
    IF outcome = "ok" THEN found > kept
    ELSE IF outcome = "partial" THEN FALSE
    ELSE cut

\* cmd_search: Cache::new and the cache lookup; on a hit truncate, print and
\* return.
cmd_search_cache_check ==
    /\ pc = "search"
    /\ LET cache == Cache_new(cmd.no_cache)
           got == get_search(cache, files, now)
       IN /\ stat' = files["search"]
          /\ cache_got' = got
          /\ IF got # None
             THEN /\ output' = Some([got.val EXCEPT
                                       !.products = truncate(@, cmd.limit)])
                  /\ ret' = OkUnit
                  /\ pc' = "cleanup"
             ELSE /\ pc' = "launch"
                  /\ UNCHANGED <<output, ret>>
    /\ UNCHANGED <<now, files, cmd, browser_ref, page_num, total_pages,
                   all_products, total_results, cmds, write_res, record,
                   fetched, delays, forced, cut, launches, navs, closes>>
    /\ UNCHANGED <<navVars, fnVars>>

\* cmd_product: the cache lookup; on a hit print and return.
cmd_product_cache_check ==
    /\ pc = "product"
    /\ LET cache == Cache_new(cmd.no_cache)
           got == get_product(cache, files, now)
       IN /\ stat' = files["product"]
          /\ cache_got' = got
          /\ IF got # None
             THEN /\ output' = Some(got.val)
                  /\ ret' = OkUnit
                  /\ pc' = "cleanup"
             ELSE /\ pc' = "launch"
                  /\ UNCHANGED <<output, ret>>
    /\ UNCHANGED <<now, files, cmd, browser_ref, page_num, total_pages,
                   all_products, total_results, cmds, write_res, record,
                   fetched, delays, forced, cut, launches, navs, closes>>
    /\ UNCHANGED <<navVars, fnVars>>

\* get_or_launch_browser and session.new_page of either command, and what
\* cmd_search does before its loop: pages_needed, the empty Vec, the first
\* value of page_num.
get_or_launch_browser ==
    /\ pc = "launch"
    /\ \E out \in {"ok", "resolve_err", "launch_err", "page_err"} :
         /\ browser_ref' = IF browser_ref = None /\ out \in {"ok", "page_err"}
                           THEN Some([open |-> TRUE])
                           ELSE browser_ref
         /\ launches' = IF browser_ref = None /\ out \in {"ok", "page_err"}
                        THEN launches + 1
                        ELSE launches
         /\ IF out = "ok"
            THEN /\ pc' = IF cmd.kind = "search" THEN "loop" ELSE "fetch"
                 /\ total_pages' = IF cmd.kind = "search"
                                   THEN pages_needed(cmd.limit) ELSE total_pages
                 /\ page_num' = IF cmd.kind = "search" THEN 1 ELSE page_num
                 /\ ret' = ret
            ELSE /\ pc' = "end"
                 /\ ret' = Err(IF out = "resolve_err" THEN ChromeResolve
                               ELSE IF out = "launch_err" THEN BrowserLaunch
                               ELSE NewPage)
                 /\ UNCHANGED <<total_pages, page_num>>
    /\ UNCHANGED <<now, files, cmd, all_products, total_results, output, cmds,
                   stat, cache_got, write_res, record, fetched, delays, forced, cut,
                   navs, closes>>
    /\ UNCHANGED <<navVars, fnVars>>

\* One iteration of `for page_num in 1..=total_pages` of cmd_search, or the
\* end of the loop.
cmd_search_page ==
    /\ pc = "loop"
    /\ IF page_num > total_pages \/ ReachedLimit(Len(all_products), cmd.limit)
       THEN /\ pc' = "finish"
            /\ UNCHANGED <<page_num, all_products, total_results, ret,
                           fetched, delays>>
       ELSE \E nav \in NavResults :
              IF nav.tag = "Err"
              THEN \* `.context("Failed to navigate to search page")?`
                   /\ ret' = nav
                   /\ pc' = "end"
                   /\ UNCHANGED <<page_num, all_products, total_results,
                                  fetched, delays>>
              ELSE \E n \in PageYields, tr \in TotalCounts :
                     LET products == [i \in 1 .. n |-> <<page_num, i>>] IN
                     /\ fetched' = Append(fetched,
                                      [page |-> page_num, n |-> n,
                                       before |-> Len(all_products)])
                     /\ ret' = ret
                     /\ IF is_empty_break(products)
                        THEN /\ pc' = "finish"
                             /\ UNCHANGED <<page_num, all_products,
                                            total_results, delays>>
                        ELSE /\ total_results' =
                                   IF total_results = None THEN tr
                                   ELSE total_results
                             /\ all_products' = all_products \o products
                             /\ delays' = IF page_num < total_pages
                                          THEN Append(delays, page_num)
                                          ELSE delays
                             /\ page_num' = page_num + 1
                             /\ pc' = "loop"
    /\ navs' = IF page_num > total_pages
                    \/ ReachedLimit(Len(all_products), cmd.limit)
                THEN navs ELSE navs + 1
    /\ UNCHANGED <<now, files, cmd, browser_ref, total_pages, output, cmds,
                   stat, cache_got, write_res, record, forced, cut, launches,
                   closes>>
    /\ UNCHANGED <<navVars, fnVars>>

\* cmd_search after the loop: the empty check, the truncation, the cache
\* write, the print.
cmd_search_finish ==
    /\ pc = "finish"
    /\ IF is_empty_bail(all_products)
       THEN /\ ret' = Err(NoSearchResults)
            /\ pc' = "end"
            /\ UNCHANGED <<files, all_products, output, write_res, record,
                           forced, cut>>
       ELSE \E w \in WriteOutcomes :
              LET prods == truncate(all_products, cmd.limit)
                  result == [query |-> "q", total_results |-> total_results,
                             products |-> prods]
                  wr == set_search(files, result, now, w)
                  kept == discard_result(wr.res)
              IN /\ all_products' = prods
                 /\ record' = Some(result)
                 /\ files' = wr.files
                 /\ write_res' = wr.res
                 /\ forced' = ForcedAfter("search", result, w, kept = OkUnit)
                 /\ cut' = CutAfter(Len(all_products), Len(prods), w)
                 /\ IF kept = OkUnit
                    THEN /\ output' = Some(result)
                         /\ ret' = OkUnit
                         /\ pc' = "cleanup"
                    ELSE /\ output' = output
                         /\ ret' = kept
                         /\ pc' = "end"
    /\ UNCHANGED <<now, cmd, browser_ref, page_num, total_pages,
                   total_results, cmds, stat, cache_got, fetched, delays,
                   launches, navs, closes>>
    /\ UNCHANGED <<navVars, fnVars>>

\* cmd_product after the launch: the navigation, the 404 check, the
\* extraction, the cache write, the print.
cmd_product_fetch ==
    /\ pc = "fetch"
    /\ \E nav \in NavResults, not_found \in BOOLEAN,
          ex \in {Ok(d) : d \in ProductDetails} \cup {Err(ProductNotFound)},
          w \in WriteOutcomes :
         IF nav.tag = "Err" \/ not_found \/ ex.tag = "Err"
         THEN /\ ret' = IF nav.tag = "Err" THEN nav
                        ELSE IF not_found THEN Err(ProductNotFound)
                        ELSE ex
              /\ pc' = "end"
              /\ UNCHANGED <<files, output, write_res, record, forced, cut>>
         ELSE LET wr == set_product(files, ex.val, now, w)
                  kept == discard_result(wr.res)
              IN /\ record' = Some(ex.val)
                 /\ files' = wr.files
                 /\ write_res' = wr.res
                 /\ forced' = ForcedAfter("product", ex.val, w, kept = OkUnit)
                 /\ cut' = cut
                 /\ IF kept = OkUnit
                    THEN /\ output' = Some(ex.val)
                         /\ ret' = OkUnit
                         /\ pc' = "cleanup"
                    ELSE /\ output' = output
                         /\ ret' = kept
                         /\ pc' = "end"
    /\ navs' = navs + 1
    /\ UNCHANGED <<now, cmd, browser_ref, page_num, total_pages, all_products,
                   total_results, cmds, stat, cache_got, fetched, delays,
                   launches, closes>>
    /\ UNCHANGED <<navVars, fnVars>>

\* main after the command returned Ok: the session is taken and closed. (An
\* Err left main through `?` before this point.)
main_cleanup ==
    /\ pc = "cleanup"
    /\ browser_ref' = None
    /\ closes' = IF browser_ref # None THEN closes + 1 ELSE closes
    /\ pc' = "end"
    /\ UNCHANGED <<now, files, cmd, page_num, total_pages, all_products,
                   total_results, output, ret, cmds, stat, cache_got,
                   write_res, record, fetched, delays, forced, cut, launches, navs>>
    /\ UNCHANGED <<navVars, fnVars>>

\* ------------------------------------------------------- decimal numbers
\* An f64 the program reads from text or JSON: m / 10^s, kept canonical (no
\* trailing zero in the fraction). Texts with an exponent, "inf" or "NaN"
\* are outside the inputs modelled.
RECURSIVE Canon(_, _)
Canon(m, s) ==
    IF s > 0 /\ m % 10 = 0 THEN Canon(m \div 10, s - 1)
    ELSE [m |-> m, s |-> s]
Dec(m, s) == Canon(m, s)
Zero == Dec(0, 0)
Pow10(n) == IF n <= 0 THEN 1 ELSE 10 ^ n
\* a and b at the scale of the finer of the two
Scaled(a, b) == a.m * Pow10(b.s - a.s)
\* f64 `a > b`
DecGt(a, b) == Scaled(a, b) > Scaled(b, a)
\* f64 `(a - b).abs() < 0.01`
DecNear(a, b) ==
    LET d == Scaled(a, b) - Scaled(b, a)
        sc == IF a.s > b.s THEN a.s ELSE b.s
    IN (IF d < 0 THEN -d ELSE d) * 100 < Pow10(sc)

\* ------------------------------------------------------------- strings
\* A &str is the sequence of its characters.
DigitChars == <<"0", "1", "2", "3", "4", "5", "6", "7", "8", "9">>
is_ascii_digit(c) == \E i \in DOMAIN DigitChars : DigitChars[i] = c
DigitVal(c) == (CHOOSE i \in DOMAIN DigitChars : DigitChars[i] = c) - 1
\* str::contains(char)
contains(s, c) == \E i \in DOMAIN s : s[i] = c
\* str::rfind(char), 0 for None
rfind(s, c) == IF contains(s, c)
               THEN CHOOSE i \in DOMAIN s :
                      s[i] = c /\ \A j \in DOMAIN s : s[j] = c => j <= i
               ELSE 0
\* str::find(char), 0 for None
find(s, c) == IF contains(s, c)
              THEN CHOOSE i \in DOMAIN s :
                     s[i] = c /\ \A j \in DOMAIN s : s[j] = c => j >= i
              ELSE 0
\* str::replace(c, "")
remove(s, c) == LET keep(x) == x # c IN SelectSeq(s, keep)
\* str::replacen(c, d, 1)
replacen1(s, c, d) ==
    LET i == find(s, c)
    IN IF i = 0 THEN s ELSE [s EXCEPT ![i] = d]

\* str::parse::<f64>() on a text of digits, '.', ',' and a leading sign: a
\* scan from the left, keeping the digits read, the digits read after the
\* point and whether a digit was read; None on any other character, on a
\* second point and when there is no digit.
RECURSIVE parse_scan(_, _, _, _, _, _)
parse_scan(s, i, m, frac, dot, any) ==
    IF i > Len(s)
    THEN IF any THEN Some(Dec(m, frac)) ELSE None
    ELSE IF is_ascii_digit(s[i])
    THEN parse_scan(s, i + 1, 10 * m + DigitVal(s[i]),
                    IF dot THEN frac + 1 ELSE frac, dot, TRUE)
    ELSE IF s[i] = "." /\ ~dot
    THEN parse_scan(s, i + 1, m, frac, TRUE, any)
    ELSE None
parse_f64(s) ==
    IF s # <<>> /\ s[1] \in {"-", "+"}
    THEN LET r == parse_scan(Tail(s), 1, 0, 0, FALSE, FALSE)
         IN IF r = None \/ s[1] = "+" THEN r
            ELSE Some(Dec(-r.val.m, r.val.s))
    ELSE parse_scan(s, 1, 0, 0, FALSE, FALSE)

\* ---------------------------------------------------- parse_price_str
\* `if last_comma > last_dot`: the comma is the decimal separator.
\* (CommaIsDecimalNever: the faulty variant that always takes the dot.)
CommaIsDecimalNever(last_comma, last_dot) == FALSE
CommaIsDecimal(last_comma, last_dot) == last_comma > last_dot

\* `after_comma.len() == 3 && after_comma.chars().all(|c| c.is_ascii_digit())`
IsThousands(after_comma) ==
    /\ Len(after_comma) = 3
    /\ \A i \in DOMAIN after_comma : is_ascii_digit(after_comma[i])

\* helpers::parse_price_str
parse_price_str(s) ==
    LET kept(c) == is_ascii_digit(c) \/ c = "." \/ c = ","
        cleaned == SelectSeq(s, kept)
        has_dot == contains(cleaned, ".")
        has_comma == contains(cleaned, ",")
        last_dot == rfind(cleaned, ".")
        last_comma == rfind(cleaned, ",")
        after_comma == SubSeq(cleaned, last_comma + 1, Len(cleaned))
        normalized ==
            IF has_dot /\ has_comma
            THEN IF CommaIsDecimal(last_comma, last_dot)
                 THEN replacen1(remove(cleaned, "."), ",", ".")
                 ELSE remove(cleaned, ",")
            ELSE IF has_comma
            THEN IF IsThousands(after_comma)
                 THEN remove(cleaned, ",")
                 ELSE replacen1(cleaned, ",", ".")
            ELSE cleaned
    IN IF cleaned = <<>> THEN None ELSE parse_f64(normalized)

\* search::parse_price, the parser of the prices of a search result card:
\* the digits and '.' of the text, parsed as f64.
parse_price(s) ==
    LET kept(c) == is_ascii_digit(c) \/ c = "."
        cleaned == SelectSeq(s, kept)
    IN parse_f64(cleaned)

\* helpers::parse_review_count: the digits of the text, parsed as u32. The
\* texts here are short, so the value fits.
RECURSIVE digits_value(_, _)
digits_value(s, acc) ==
    IF s = <<>> THEN acc
    ELSE digits_value(Tail(s), 10 * acc + DigitVal(Head(s)))
parse_review_count(text) ==
    LET ds == SelectSeq(text, is_ascii_digit)
    IN IF ds = <<>> THEN None ELSE Some(digits_value(ds, 0))

\* ------------------------------------------------------------ JSON values
\* serde_json::Value as the parsers look at it: a key that is absent, a
\* string, a number, a boolean, or a value of another type.
JAbsent == [t |-> "absent"]
JOther == [t |-> "other"]
JStr(s) == [t |-> "str", s |-> s]
JNum(d) == [t |-> "num", n |-> d]
JBool(b) == [t |-> "bool", b |-> b]
\* Value::as_str, as_f64, as_u64, as_bool
as_str(v) == IF v.t = "str" THEN Some(v.s) ELSE None
as_f64(v) == IF v.t = "num" THEN Some(v.n) ELSE None
as_u64(v) == IF v.t = "num" /\ v.n.s = 0 /\ v.n.m >= 0 THEN Some(v.n.m) ELSE None
as_bool(v) == IF v.t = "bool" THEN Some(v.b) ELSE None
\* `a.get(k).or_else(|| a.get(k2))`: the second key only when the first is
\* absent.
or_else(a, b) == IF a.t # "absent" THEN a ELSE b
\* Option::unwrap_or
unwrap_or(o, d) == IF o = None THEN d ELSE o.val
\* Option::or
opt_or(a, b) == IF a # None THEN a ELSE b
\* `v.as_str().and_then(|s| s.parse::<f64>().ok()).or_else(|| v.as_f64())`
json_f64(v) == IF v.t = "str" THEN parse_f64(v.s) ELSE as_f64(v)
\* `v.as_str().and_then(|s| s.parse::<u32>().ok()).or_else(|| v.as_u64())`
json_u32(v) ==
    IF v.t = "str"
    THEN IF v.s # <<>> /\ \A i \in DOMAIN v.s : is_ascii_digit(v.s[i])
         THEN Some(digits_value(v.s, 0)) ELSE None
    ELSE as_u64(v)

\* `Option<f64>::filter(|&p| p > price)`
filter_gt(o, price) ==
    IF o # None /\ DecGt(o.val, price) THEN o ELSE None

\* ---------------------------------------------------------- ProductDetail
PRODUCT_ID == "12345"
BASE_URL == "https://www.iherb.com"
\* format!("{}/pr/p/{}", base_url, product_id)
DefaultUrl == <<BASE_URL, "/pr/p/", PRODUCT_ID>>
\* The placeholder name parse_from_html rejects.
UNKNOWN_PRODUCT == "Unknown Product"
\* The currency the JSON parsers fall back to.
USD == "USD"

\* The fields the DOM alone carries, before any DOM pass.
NoDomFields ==
    [ingredients |-> None, supplement_facts |-> None, suggested_use |-> None,
     warnings |-> None, shipping_weight |-> None,
     category_breadcrumb |-> None, review_distribution |-> None]

\* `if name.is_empty() { return None; }` of the three structured parsers
\* (name_never_empty: the faulty variant that lets an empty name through.)
name_never_empty(name) == FALSE
name_is_empty(name) == name = ""

\* ------------------------------------------- extract_prices_from_offers
\* The loop over priceSpecification: the last non-strikethrough price, the
\* last strikethrough price, the first currency of a non-strikethrough entry
\* seen while none was set.
STRIKETHROUGH == "https://schema.org/StrikethroughPrice"
RECURSIVE price_spec_loop(_, _, _)
price_spec_loop(specs, i, acc) ==
    IF i > Len(specs) THEN acc
    ELSE LET spec == specs[i]
             spec_price == json_f64(spec.price)
             spec_currency == as_str(spec.priceCurrency)
             is_strikethrough == unwrap_or(as_str(spec.priceType), "") = STRIKETHROUGH
         IN price_spec_loop(specs, i + 1,
              IF is_strikethrough
              THEN [acc EXCEPT !.strikethrough_price = spec_price]
              ELSE [acc EXCEPT !.current_price = spec_price,
                               !.currency = IF @ = None THEN spec_currency ELSE @])

\* `if let Some(price) = top_price { return (price, None, ..) }`
\* (top_price_skipped: the faulty variant that goes on to priceSpecification
\* whatever the flat price.)
top_price_skipped(top_price) == FALSE
top_price_is_some(top_price) == top_price # None

\* extract_prices_from_offers: <<price, original_price, currency>>
extract_prices_from_offers(offers) ==
    IF offers.t # "obj" THEN <<Zero, None, USD>>
    ELSE LET top_price == json_f64(offers.price)
             top_currency == as_str(offers.priceCurrency)
         IN IF top_price_is_some(top_price)
            THEN <<top_price.val, None, unwrap_or(top_currency, USD)>>
            ELSE IF offers.priceSpecification.t = "arr"
            THEN LET acc == price_spec_loop(offers.priceSpecification.items, 1,
                               [current_price |-> None,
                                strikethrough_price |-> None,
                                currency |-> None])
                     price == unwrap_or(acc.current_price, Zero)
                     original == filter_gt(acc.strikethrough_price, price)
                     currency == unwrap_or(opt_or(acc.currency, top_currency), USD)
                 IN <<price, original, currency>>
            ELSE <<Zero, None, unwrap_or(top_currency, USD)>>

\* ----------------------------------------------------- parse_from_json_ld
parse_from_json_ld(data) ==
    LET name == as_str(data.name)
        brand == unwrap_or(IF data.brand.t = "obj" THEN as_str(data.brand.name)
                           ELSE as_str(data.brand), "")
        prices == extract_prices_from_offers(data.offers)
        in_stock == IF data.offers.t = "obj" /\ data.offers.availability.t = "str"
                    THEN data.offers.availability.s = "https://schema.org/InStock"
                    ELSE TRUE
        agg == data.aggregateRating
        rating == IF agg.t = "obj" THEN json_f64(agg.ratingValue) ELSE None
        review_count == IF agg.t = "obj" THEN json_u32(agg.reviewCount) ELSE None
        url == as_str(data.url)
    IN IF name = None \/ name_is_empty(name.val) THEN None
       ELSE Some([name |-> name.val,
                  brand |-> brand,
                  price |-> prices[1],
                  original_price |-> prices[2],
                  currency |-> prices[3],
                  rating |-> rating,
                  review_count |-> review_count,
                  product_url |-> IF url = None THEN DefaultUrl ELSE <<url.val>>,
                  product_id |-> PRODUCT_ID,
                  in_stock |-> in_stock,
                  description |-> as_str(data.description),
                  product_code |-> as_str(or_else(data.sku, data.mpn)),
                  upc |-> as_str(or_else(data.gtin12, data.gtin13))]
                 @@ NoDomFields)

\* -------------------------------------------------- parse_from_js_globals
\* globals: [ihr |-> the keys of ihrProduct, pd |-> the keys of
\* productDetails], a key of a missing object being absent.
parse_from_js_globals(globals, currency) ==
    LET ihr == globals.ihr
        pd == globals.pd
        name == unwrap_or(as_str(or_else(ihr.prdNm, pd.name)), "")
        brand == unwrap_or(as_str(ihr.brndNm), "")
        price_str == unwrap_or(as_str(ihr.prc), <<"0">>)
        price == unwrap_or(parse_price_str(price_str), Zero)
    IN IF name_is_empty(name) THEN None
       ELSE Some([name |-> name,
                  brand |-> brand,
                  price |-> price,
                  original_price |-> None,
                  currency |-> currency,
                  rating |-> None,
                  review_count |-> None,
                  product_url |-> DefaultUrl,
                  product_id |-> PRODUCT_ID,
                  in_stock |-> TRUE,
                  description |-> None,
                  product_code |-> as_str(or_else(pd.code, ihr.prtNum)),
                  upc |-> None]
                 @@ NoDomFields)

\* --------------------------------------------------- parse_from_next_data
\* data: [product |-> absent, or the object under props.pageProps.product
\* (or productData, or initialProduct)]; its key brand_name is brand.name.
parse_from_next_data(data) ==
    IF data.product.t # "obj" THEN None
    ELSE
    LET product == data.product
        name == unwrap_or(as_str(or_else(product.title, product.name)), "")
        brand == unwrap_or(as_str(or_else(product.brandName, product.brand_name)), "")
        price == unwrap_or(as_f64(or_else(product.price, product.discountPrice)), Zero)
        original_price ==
            filter_gt(as_f64(or_else(product.listPrice, product.retailPrice)), price)
        currency == unwrap_or(as_str(product.currency), USD)
    IN IF name_is_empty(name) THEN None
       ELSE Some([name |-> name,
                  brand |-> brand,
                  price |-> price,
                  original_price |-> original_price,
                  currency |-> currency,
                  rating |-> as_f64(or_else(product.rating, product.averageRating)),
                  review_count |-> as_u64(or_else(product.reviewCount,
                                                  product.numberOfReviews)),
                  product_url |-> DefaultUrl,
                  product_id |-> PRODUCT_ID,
                  in_stock |-> unwrap_or(as_bool(or_else(product.inStock,
                                                         product.isInStock)), TRUE),
                  description |-> as_str(product.description),
                  product_code |-> as_str(or_else(product.partNumber,
                                                  product.productCode)),
                  upc |-> as_str(product.upc),
                  ingredients |-> as_str(product.ingredients),
                  supplement_facts |-> None,
                  suggested_use |-> as_str(product.suggestedUse),
                  warnings |-> as_str(product.warnings),
                  shipping_weight |-> as_str(product.shippingWeight),
                  category_breadcrumb |-> None,
                  review_distribution |-> None])

\* ------------------------------------------------------------------- DOM
\* The parsed document as the selectors see it: per lookup, what
\* extract_text / an attribute read gives (None when nothing matches or the
\* text is empty).
\*   not_found      helpers::is_not_found_page(html)
\*   h1             "h1#name, h1[data-testid='product-name'], h1"
\*   brand          "#brand a span bdi, ..."
\*   input          input#share-email-model: its data-list-price and
\*                  data-discount-price attributes
\*   price_text     ".purchase-option-one-time .list-price, ..., .price"
\*   stars          the title of a.stars up to the first '/'
\*   rating_count   "a.rating-count span"
\*   stock          "#stock-status .stock-status-content strong", lowercased:
\*                  whether it contains "in stock"
\*   out_of_stock   html.contains("Out of Stock")
\*   spec_*         extract_spec for the label
\*   ingredients    ".prodOverviewIngred"
\*   sections       the h3 of #product-overview in document order: the
\*                  heading lowercased and extract_sibling_div_text
\*   supplement_facts, review_distribution   what the table parsers return
\*   meta_currency  the content of meta[itemprop='priceCurrency']
\*   price_bdi      the text of "span.price bdi, div.price bdi, ..."

\* str::trim on a text whose only whitespace is ' '
RECURSIVE trim_start(_)
trim_start(s) == IF s # <<>> /\ Head(s) = " " THEN trim_start(Tail(s)) ELSE s
RECURSIVE trim_end(_)
trim_end(s) ==
    IF s # <<>> /\ s[Len(s)] = " " THEN trim_end(SubSeq(s, 1, Len(s) - 1)) ELSE s
trim(s) == trim_end(trim_start(s))
\* str::starts_with
starts_with(s, p) == Len(s) >= Len(p) /\ SubSeq(s, 1, Len(p)) = p

\* str::to_uppercase on the currency codes of the pages modelled
to_uppercase(code) ==
    IF code = "eur" THEN "EUR" ELSE IF code = "chf" THEN "CHF" ELSE code

\* The currency signs, one character each.
EURO == "EURO SIGN"
POUND == "POUND SIGN"
YEN == "YEN SIGN"
WON == "WON SIGN"

\* helpers::detect_currency_from_text
detect_currency_from_text(t) ==
    LET text == trim(t) IN
    IF starts_with(text, <<"$">>) THEN Some("USD")
    ELSE IF starts_with(text, <<EURO>>) THEN Some("EUR")
    ELSE IF starts_with(text, <<POUND>>) THEN Some("GBP")
    ELSE IF starts_with(text, <<"C", "H", "F">>) THEN Some("CHF")
    ELSE IF starts_with(text, <<"C", "A", "$">>) \/ starts_with(text, <<"C", "$">>)
    THEN Some("CAD")
    ELSE IF starts_with(text, <<"A", "$">>) \/ starts_with(text, <<"A", "U", "$">>)
    THEN Some("AUD")
    ELSE IF starts_with(text, <<YEN>>) THEN Some("JPY")
    ELSE IF starts_with(text, <<WON>>) THEN Some("KRW")
    ELSE None

\* helpers::detect_currency_from_html
detect_currency_from_html(doc) ==
    LET code == IF doc.meta_currency = None THEN ""
                ELSE to_uppercase(doc.meta_currency.val)
        from_text == IF doc.price_bdi = None THEN None
                     ELSE detect_currency_from_text(doc.price_bdi.val)
    IN IF code # "" THEN Some(code) ELSE from_text

\* Option::and_then(parse_price_str)
and_then_parse_price_str(o) == IF o = None THEN None ELSE parse_price_str(o.val)

\* extract_prices_from_input: None, or Some(<<price, original_price>>)
extract_prices_from_input(doc) ==
    IF doc.input = None THEN None
    ELSE LET list_price == and_then_parse_price_str(doc.input.val.list)
             disc_price == and_then_parse_price_str(doc.input.val.disc)
         IN IF disc_price # None /\ list_price # None
               /\ DecGt(list_price.val, disc_price.val)
            THEN Some(<<disc_price.val, list_price>>)
            ELSE IF disc_price # None THEN Some(<<disc_price.val, None>>)
            ELSE IF list_price # None THEN Some(<<list_price.val, None>>)
            ELSE None

\* extract_rating_from_stars
extract_rating_from_stars(doc) ==
    IF doc.stars = None THEN None ELSE parse_f64(trim(doc.stars.val))

\* assign_section_by_heading: the heading is one of the section names, or
\* some other text.
assign_section_by_heading(heading, content, product) ==
    IF heading = "suggested use" /\ product.suggested_use = None
    THEN [product EXCEPT !.suggested_use = Some(content)]
    ELSE IF heading = "warnings" /\ product.warnings = None
    THEN [product EXCEPT !.warnings = Some(content)]
    ELSE IF heading = "description" /\ product.description = None
    THEN [product EXCEPT !.description = Some(content)]
    ELSE product

\* parse_overview_sections
RECURSIVE sections_loop(_, _, _)
sections_loop(sections, i, product) ==
    IF i > Len(sections) THEN product
    ELSE sections_loop(sections, i + 1,
           IF sections[i].content = None \/ sections[i].content.val = ""
           THEN product
           ELSE assign_section_by_heading(sections[i].heading,
                                          sections[i].content.val, product))
parse_overview_sections(doc, product) ==
    sections_loop(doc.sections, 1,
        IF product.ingredients = None /\ doc.ingredients # None
        THEN [product EXCEPT !.ingredients = doc.ingredients]
        ELSE product)

\* ------------------------------------------------------ parse_from_html
parse_from_html(doc, currency) ==
    LET name == unwrap_or(doc.h1, "")
        from_input == extract_prices_from_input(doc)
        prices == IF from_input # None THEN from_input.val
                  ELSE <<unwrap_or(and_then_parse_price_str(doc.price_text), Zero),
                         None>>
        review_count == IF doc.rating_count = None THEN None
                        ELSE parse_review_count(doc.rating_count.val)
        in_stock == IF doc.stock # None THEN doc.stock.val ELSE ~doc.out_of_stock
        product == [name |-> name,
                    brand |-> unwrap_or(doc.brand, ""),
                    price |-> prices[1],
                    original_price |-> prices[2],
                    currency |-> unwrap_or(detect_currency_from_html(doc), currency),
                    rating |-> extract_rating_from_stars(doc),
                    review_count |-> review_count,
                    product_url |-> DefaultUrl,
                    product_id |-> PRODUCT_ID,
                    in_stock |-> in_stock,
                    description |-> None,
                    product_code |-> doc.spec_code,
                    upc |-> doc.spec_upc,
                    ingredients |-> None,
                    supplement_facts |-> doc.supplement_facts,
                    suggested_use |-> None,
                    warnings |-> None,
                    shipping_weight |-> doc.spec_weight,
                    category_breadcrumb |-> None,
                    review_distribution |-> doc.review_distribution]
    IN IF doc.not_found THEN Err(ProductNotFound)
       ELSE IF name = "" \/ name = UNKNOWN_PRODUCT THEN Err(ProductNotFound)
       ELSE Ok(parse_overview_sections(doc, product))

\* ------------------------------------------------------ enrich_from_html
\* `if product.original_price.is_some() && product.price > 0.0 { return; }`
\* (pricing_never_settled: the faulty variant without the early return.)
pricing_never_settled(product) == FALSE
pricing_settled(product) ==
    product.original_price # None /\ DecGt(product.price, Zero)

enrich_pricing(doc, product) ==
    IF pricing_settled(product) \/ doc.input = None THEN product
    ELSE LET list_price == and_then_parse_price_str(doc.input.val.list)
             disc_price == and_then_parse_price_str(doc.input.val.disc)
         IN IF list_price # None /\ disc_price # None
               /\ DecGt(list_price.val, disc_price.val)
            THEN [product EXCEPT
                    !.original_price = list_price,
                    !.price = IF DecNear(product.price, list_price.val)
                                 \/ product.price = Zero
                              THEN disc_price.val ELSE @]
            ELSE product

enrich_rating_and_reviews(doc, product) ==
    [product EXCEPT
       !.rating = IF @ = None THEN extract_rating_from_stars(doc) ELSE @,
       !.review_count = IF @ = None /\ doc.rating_count # None
                        THEN parse_review_count(doc.rating_count.val) ELSE @]

enrich_product_specs(doc, product) ==
    [product EXCEPT
       !.shipping_weight = IF @ = None THEN doc.spec_weight ELSE @,
       !.product_code = IF @ = None THEN doc.spec_code ELSE @,
       !.upc = IF @ = None THEN doc.spec_upc ELSE @]

\* `if product.brand.is_empty()`
\* (brand_always: the faulty variant that takes the DOM brand whenever the
\* DOM has one.)
brand_always(brand) == TRUE
brand_is_empty(brand) == brand = ""

enrich_from_html(doc, product) ==
    LET p1 == IF brand_is_empty(product.brand) /\ doc.brand # None
              THEN [product EXCEPT !.brand = doc.brand.val] ELSE product
        p2 == enrich_pricing(doc, p1)
        p3 == enrich_rating_and_reviews(doc, p2)
        p4 == IF doc.stock # None THEN [p3 EXCEPT !.in_stock = doc.stock.val]
              ELSE p3
        p5 == enrich_product_specs(doc, p4)
        p6 == parse_overview_sections(doc, p5)
    IN [p6 EXCEPT
          !.supplement_facts = IF @ = None THEN doc.supplement_facts ELSE @,
          !.review_distribution = IF @ = None THEN doc.review_distribution ELSE @]

\* ------------------------------------------------------- extract_product
\* The texts of the pages modelled.
T_19_99 == <<"1", "9", ".", "9", "9">>
T_24_99 == <<"2", "4", ".", "9", "9">>
T_20_00 == <<"2", "0", ".", "0", "0">>
T_30_00 == <<"3", "0", ".", "0", "0">>
T_MINUS_5 == <<"-", "5">>
T_USD_49_99 == <<"$", "4", "9", ".", "9", "9">>
T_EU_1299 == <<"1", ".", "2", "9", "9", ",", "0", "0">>
T_EURO_20 == <<EURO, "2", "0", ",", "0", "0">>
T_CHF_4_46 == <<"C", "H", "F", " ", "4", ".", "4", "6">>
T_4_5 == <<"4", ".", "5">>
T_4_8 == <<"4", ".", "8", " ">>
T_42_328 == <<"4", "2", ",", "3", "2", "8">>

IN_STOCK == "https://schema.org/InStock"
OUT_OF_STOCK == "https://schema.org/OutOfStock"

\* JSON-LD blocks: what extract_json_ld returns for the page.
Offers(price, cur, specs, avail) ==
    [t |-> "obj", price |-> price, priceCurrency |-> cur,
     priceSpecification |-> specs, availability |-> avail]
PriceSpec(price, cur, type) ==
    [price |-> price, priceCurrency |-> cur, priceType |-> type]
PriceSpecs(items) == [t |-> "arr", items |-> items]
Aggregate(value, count) ==
    [t |-> "obj", ratingValue |-> value, reviewCount |-> count]
LdFull ==
    [name |-> JStr("Widget"), brand |-> JStr("Acme"),
     offers |-> Offers(JStr(T_19_99), JStr("USD"), JAbsent, JStr(IN_STOCK)),
     aggregateRating |-> Aggregate(JStr(T_4_5), JNum(Dec(120, 0))),
     description |-> JStr("ld description"), sku |-> JStr("LD-SKU"),
     mpn |-> JAbsent, gtin12 |-> JStr("000111"), gtin13 |-> JAbsent,
     url |-> JAbsent]
LdBare ==
    [name |-> JStr("Widget"), brand |-> JAbsent, offers |-> JAbsent,
     aggregateRating |-> JAbsent, description |-> JAbsent, sku |-> JAbsent,
     mpn |-> JAbsent, gtin12 |-> JAbsent, gtin13 |-> JAbsent, url |-> JAbsent]
LdDocs ==
    { None,
      Some(LdFull),
      Some(LdBare),
      Some([LdFull EXCEPT !.name = JStr("")]),
      Some([LdFull EXCEPT !.name = JOther]),
      Some([LdBare EXCEPT !.name = JStr(UNKNOWN_PRODUCT)]),
      \* current and list price in priceSpecification
      Some([LdFull EXCEPT !.offers =
          Offers(JAbsent, JAbsent,
                 PriceSpecs(<<PriceSpec(JStr(T_19_99), JStr("EUR"), JAbsent),
                              PriceSpec(JStr(T_24_99), JStr("EUR"),
                                        JStr(STRIKETHROUGH))>>),
                 JStr(OUT_OF_STOCK))]),
      \* a list price below the current price
      Some([LdFull EXCEPT !.offers =
          Offers(JAbsent, JStr("CHF"),
                 PriceSpecs(<<PriceSpec(JNum(Dec(2499, 2)), JAbsent, JAbsent),
                              PriceSpec(JNum(Dec(1999, 2)), JAbsent,
                                        JStr(STRIKETHROUGH))>>),
                 JAbsent)]),
      \* only a list price in priceSpecification
      Some([LdBare EXCEPT !.offers =
          Offers(JAbsent, JAbsent,
                 PriceSpecs(<<PriceSpec(JStr(T_24_99), JAbsent,
                                        JStr(STRIKETHROUGH))>>),
                 JAbsent)]),
      \* a flat price and priceSpecification, the flat price the current one
      Some([LdFull EXCEPT !.offers =
          Offers(JStr(T_19_99), JStr("USD"),
                 PriceSpecs(<<PriceSpec(JStr(T_19_99), JStr("USD"), JAbsent),
                              PriceSpec(JStr(T_24_99), JStr("USD"),
                                        JStr(STRIKETHROUGH))>>),
                 JStr(IN_STOCK))]),
      \* a flat price and priceSpecification, the flat price the list price
      Some([LdBare EXCEPT !.offers =
          Offers(JNum(Dec(2499, 2)), JAbsent,
                 PriceSpecs(<<PriceSpec(JStr(T_19_99), JAbsent, JAbsent),
                              PriceSpec(JStr(T_24_99), JAbsent,
                                        JStr(STRIKETHROUGH))>>),
                 JAbsent)]),
      \* a current price that is the DOM's list price, and a list price
      Some([LdBare EXCEPT !.offers =
          Offers(JAbsent, JAbsent,
                 PriceSpecs(<<PriceSpec(JStr(T_24_99), JAbsent, JAbsent),
                              PriceSpec(JStr(T_30_00), JAbsent,
                                        JStr(STRIKETHROUGH))>>),
                 JAbsent)]),
      \* a price half a cent below the DOM's list price
      Some([LdBare EXCEPT !.offers = Offers(JNum(Dec(24985, 3)), JAbsent,
                                            JAbsent, JAbsent)]),
      \* a numeric price, no currency
      Some([LdBare EXCEPT !.brand = [t |-> "obj", name |-> JStr("Acme")],
                          !.offers = Offers(JNum(Dec(50, 0)), JAbsent, JAbsent,
                                            JStr(IN_STOCK))]),
      \* a negative price
      Some([LdBare EXCEPT !.offers = Offers(JStr(T_MINUS_5), JAbsent, JAbsent,
                                            JAbsent)]) }

\* JS globals: what extract_js_globals returns for the live page.
NoIhr == [prdNm |-> JAbsent, brndNm |-> JAbsent, prc |-> JAbsent, prtNum |-> JAbsent]
NoPd == [name |-> JAbsent, code |-> JAbsent]
JsDocs ==
    { None,
      Some([ihr |-> [prdNm |-> JStr("Gadget"), brndNm |-> JStr("JsBrand"),
                     prc |-> JStr(T_USD_49_99), prtNum |-> JStr("JS-PART")],
            pd |-> NoPd]),
      Some([ihr |-> [NoIhr EXCEPT !.prdNm = JStr("")],
            pd |-> [name |-> JStr("Gadget"), code |-> JStr("JS-CODE")]]),
      Some([ihr |-> [NoIhr EXCEPT !.prc = JStr(T_EU_1299)],
            pd |-> [name |-> JStr("Gadget"), code |-> JAbsent]]),
      Some([ihr |-> NoIhr, pd |-> [name |-> JStr("Gadget"), code |-> JAbsent]]) }

\* __NEXT_DATA__: what extract_next_data returns for the live page.
NoBlobProduct ==
    [t |-> "obj", title |-> JAbsent, name |-> JAbsent, brandName |-> JAbsent,
     brand_name |-> JAbsent, price |-> JAbsent, discountPrice |-> JAbsent,
     listPrice |-> JAbsent, retailPrice |-> JAbsent, currency |-> JAbsent,
     rating |-> JAbsent, averageRating |-> JAbsent, reviewCount |-> JAbsent,
     numberOfReviews |-> JAbsent, inStock |-> JAbsent, isInStock |-> JAbsent,
     description |-> JAbsent, partNumber |-> JAbsent, productCode |-> JAbsent,
     upc |-> JAbsent, ingredients |-> JAbsent, suggestedUse |-> JAbsent,
     warnings |-> JAbsent, shippingWeight |-> JAbsent]
BlobDocs ==
    { None,
      Some([product |-> JAbsent]),
      Some([product |-> [NoBlobProduct EXCEPT !.title = JStr(""),
                                              !.name = JStr("Thing")]]),
      Some([product |-> [NoBlobProduct EXCEPT
                !.title = JStr("Thing"), !.brand_name = JStr("BlobBrand"),
                !.price = JNum(Dec(30, 0)), !.listPrice = JNum(Dec(40, 0)),
                !.averageRating = JNum(Dec(47, 1)),
                !.numberOfReviews = JNum(Dec(7, 0)),
                !.isInStock = JBool(FALSE)]]),
      Some([product |-> [NoBlobProduct EXCEPT
                !.name = JStr("Thing"), !.discountPrice = JNum(Dec(-1, 0)),
                !.retailPrice = JNum(Dec(-1, 0)), !.currency = JStr("CHF")]]),
      Some([product |-> [NoBlobProduct EXCEPT !.name = JStr("Thing")]]) }

\* Documents.
NoDom ==
    [not_found |-> FALSE, h1 |-> None, brand |-> None, input |-> None,
     price_text |-> None, stars |-> None, rating_count |-> None,
     stock |-> None, out_of_stock |-> FALSE, spec_code |-> None,
     spec_upc |-> None, spec_weight |-> None, ingredients |-> None,
     sections |-> <<>>, supplement_facts |-> None,
     review_distribution |-> None, meta_currency |-> None, price_bdi |-> None]
DomFull ==
    [NoDom EXCEPT
       !.h1 = Some("DomWidget"), !.brand = Some("DomBrand"),
       !.input = Some([list |-> Some(T_24_99), disc |-> Some(T_19_99)]),
       !.stars = Some(T_4_8), !.rating_count = Some(T_42_328),
       !.stock = Some(TRUE), !.spec_code = Some("DOM-CODE"),
       !.spec_upc = Some("999888"), !.spec_weight = Some("0.5 kg"),
       !.ingredients = Some("water"),
       !.sections = <<[heading |-> "description", content |-> Some("dom description")],
                      [heading |-> "suggested use", content |-> Some("daily")],
                      [heading |-> "warnings", content |-> Some("")],
                      [heading |-> "warnings", content |-> Some("keep dry")],
                      [heading |-> "suggested use", content |-> Some("twice")]>>,
       !.supplement_facts = Some("facts"), !.review_distribution = Some("bars"),
       !.meta_currency = Some("chf"), !.price_bdi = Some(T_USD_49_99)]
DomDocs ==
    { NoDom,
      DomFull,
      [NoDom EXCEPT !.h1 = Some("DomWidget")],
      [NoDom EXCEPT !.h1 = Some("DomWidget"), !.out_of_stock = TRUE,
                    !.price_text = Some(T_CHF_4_46), !.price_bdi = Some(T_CHF_4_46)],
      [NoDom EXCEPT !.h1 = Some("DomWidget"), !.stock = Some(FALSE),
                    !.input = Some([list |-> Some(T_30_00), disc |-> Some(T_20_00)]),
                    !.price_bdi = Some(T_EURO_20)],
      [NoDom EXCEPT !.h1 = Some("DomWidget"),
                    !.input = Some([list |-> Some(T_19_99), disc |-> None])],
      [NoDom EXCEPT !.h1 = Some("DomWidget"),
                    !.input = Some([list |-> Some(T_19_99), disc |-> Some(T_24_99)])],
      [DomFull EXCEPT !.h1 = Some(UNKNOWN_PRODUCT)],
      [DomFull EXCEPT !.not_found = TRUE] }

\* The caller's currency (config.currency).
Currencies == {"USD", "EUR"}

\* extract_product up to its first await: the JSON-LD block of the HTML, and
\* the DOM pass over the record it gives.
extract_product_json_ld ==
    /\ ex_pc = "json_ld"
    /\ LET parsed == IF page.ld = None THEN None
                     ELSE parse_from_json_ld(page.ld.val)
       IN IF parsed # None
          THEN /\ ex_pre' = parsed
               /\ ex_ret' = Ok(enrich_from_html(page.dom, parsed.val))
               /\ ex_src' = "json_ld"
               /\ ex_pc' = "done"
          ELSE /\ ex_pc' = "js_globals"
               /\ UNCHANGED <<ex_pre, ex_ret, ex_src>>
    /\ UNCHANGED <<page, ex_currency>>
    /\ UNCHANGED <<pagesVars, parseVars, keyVars, closeVars, navVars, cmdVars>>

\* After extract_js_globals(page).await: the JS globals, and the DOM pass.
extract_product_js_globals ==
    /\ ex_pc = "js_globals"
    /\ LET parsed == IF page.js = None THEN None
                     ELSE parse_from_js_globals(page.js.val, ex_currency)
       IN IF parsed # None
          THEN /\ ex_pre' = parsed
               /\ ex_ret' = Ok(enrich_from_html(page.dom, parsed.val))
               /\ ex_src' = "js_globals"
               /\ ex_pc' = "done"
          ELSE /\ ex_pc' = "next_data"
               /\ UNCHANGED <<ex_pre, ex_ret, ex_src>>
    /\ UNCHANGED <<page, ex_currency>>
    /\ UNCHANGED <<pagesVars, parseVars, keyVars, closeVars, navVars, cmdVars>>

\* After extract_next_data(page).await: the page-data blob, returned as it
\* is, or else the DOM.
extract_product_next_data ==
    /\ ex_pc = "next_data"
    /\ LET parsed == IF page.blob = None THEN None
                     ELSE parse_from_next_data(page.blob.val)
       IN IF parsed # None
          THEN /\ ex_ret' = Ok(parsed.val)
               /\ ex_src' = "next_data"
          ELSE /\ ex_ret' = parse_from_html(page.dom, ex_currency)
               /\ ex_src' = "dom"
    /\ ex_pc' = "done"
    /\ UNCHANGED <<page, ex_currency, ex_pre>>
    /\ UNCHANGED <<pagesVars, parseVars, keyVars, closeVars, navVars, cmdVars>>

\* The texts parse_price_str is applied to in SpecParse: every text of at
\* most MaxPriceLen characters of PriceChars, and the longer ones of
\* PriceExamples.
MaxPriceLen == 5
PriceChars == {"0", "1", ".", ",", "$"}
PriceExamples ==
    { <<"1", ",", "2", "3", "4", ".", "5", "6">>,
      <<"1", ".", "2", "3", "4", ",", "5", "6">>,
      <<"2", "3", ",", "9", "9">>,
      <<"1", ",", "0", "0", "0">>,
      <<>>,
      <<"1", ",", "2", "3", "4", ",", "5", "6", "7">>,
      <<"1", ".", "2", "3", "4", ".", "5", "6", "7", ",", "8", "9">>,
      T_USD_49_99, T_EU_1299, T_CHF_4_46, T_EURO_20 }
PriceTexts ==
    UNION {[1 .. n -> PriceChars] : n \in 0 .. MaxPriceLen} \cup PriceExamples

\* parse_price_str applied to pp_in.
parse_price_str_call ==
    /\ pp_out = Pending
    /\ pp_out' = parse_price_str(pp_in)
    /\ UNCHANGED <<pp_in, sp_out, pagesVars, exVars, keyVars, closeVars, navVars, cmdVars>>

\* parse_search_from_html reads the price of a card whose price text is
\* pp_in: `.and_then(|s| parse_price(&s))`.
parse_price_call ==
    /\ sp_out = Pending
    /\ sp_out' = parse_price(pp_in)
    /\ UNCHANGED <<pp_in, pp_out, pagesVars, exVars, keyVars, closeVars, navVars,
                   cmdVars>>

\* ------------------------------------------------------ Cache::search_key
\* SortOrder and SortOrder::as_cache_key (cli.rs), a &str being the sequence
\* of its characters.
SortOrders == {"Relevance", "PriceAsc", "PriceDesc", "Rating", "BestSelling"}
as_cache_key(sort) ==
    CASE sort = "Relevance" -> <<"r", "e", "l", "e", "v", "a", "n", "c", "e">>
      [] sort = "PriceAsc" -> <<"p", "r", "i", "c", "e", "-", "a", "s", "c">>
      [] sort = "PriceDesc" -> <<"p", "r", "i", "c", "e", "-", "d", "e", "s", "c">>
      [] sort = "Rating" -> <<"r", "a", "t", "i", "n", "g">>
      [] sort = "BestSelling" -> <<"b", "e", "s", "t", "-", "s", "e", "l", "l", "i", "n", "g">>

\* The bytes the three `hasher.update` calls feed to the digest, in order:
\* the query, the sort token, and the category when there is one.
hasher_input(query, sort, category) ==
    query \o as_cache_key(sort) \o (IF category # None THEN category.val ELSE <<>>)

\* Sha256 gives 32 bytes; the digest is a function of the bytes fed and of
\* nothing else, and is kept as that: two digests are equal when the bytes
\* fed are (a collision of SHA-256 on different bytes is outside the model).
SHA256_LEN == 32
Sha256(bytes) == [of |-> bytes, len |-> SHA256_LEN]
\* `&result[..8]`
KEY_BYTES == 8
prefix(digest, n) == [digest EXCEPT !.len = IF n < @ THEN n ELSE @]
\* hex::encode: two characters per byte
hex_encode(digest) == [of |-> digest.of, chars |-> 2 * digest.len]

\* Cache::search_key
search_key(query, sort, category) ==
    hex_encode(prefix(Sha256(hasher_input(query, sort, category)), KEY_BYTES))

\* A search request: query, sort order, category filter.
Request(q, s, c) == [query |-> q, sort |-> s, category |-> c]
NoRequest == Request(<<>>, "Relevance", None)
\* The queries and categories of the two requests: a short text, and that
\* text next to the token of a sort order.
Queries == {<<"a">>} \cup {<<"a">> \o as_cache_key(s) : s \in SortOrders}
Categories ==
    {None, Some(<<>>), Some(<<"b">>)}
      \cup {Some(as_cache_key(s) \o <<"b">>) : s \in SortOrders}
Requests ==
    {Request(q, s, c) : q \in Queries, s \in SortOrders, c \in Categories}

\* Cache::set_search for request k_a: the artifact search_<key>.json is
\* written.
set_search_key ==
    /\ k_file = Pending
    /\ k_file' = search_key(k_a.query, k_a.sort, k_a.category)
    /\ UNCHANGED <<k_a, k_b, k_hit>>
    /\ UNCHANGED <<pagesVars, parseVars, exVars, closeVars, navVars, cmdVars>>

\* Cache::get_search for request k_b right after: it reads
\* search_<key>.json, which exists when its key is the one written.
get_search_key ==
    /\ k_file # Pending
    /\ k_hit = Pending
    /\ k_hit' = IF search_key(k_b.query, k_b.sort, k_b.category) = k_file
               THEN Some(k_file) ELSE None
    /\ UNCHANGED <<k_a, k_b, k_file>>
    /\ UNCHANGED <<pagesVars, parseVars, exVars, closeVars, navVars, cmdVars>>

\* ------------------------------------------- BrowserSession::close
\* The cleanup loop is `for attempt in 1..=3`, and `attempt < 3` decides
\* between retrying and giving up.
CLEANUP_ATTEMPTS == 3
\* The sleep after browser.close() and the sleep before each retry.
CLEANUP_WAIT_MS == 500

\* What Chrome may have left in the profile directory.
ProfileEntries == {"SingletonLock", "Default", "Local State"}
\* The io::Error kinds remove_dir_all fails with while files are held.
RemoveErrors == {"ResourceBusy", "PermissionDenied"}

Slept(ms) == [op |-> "sleep", ms |-> ms]
Removed(n, res) == [op |-> "remove_dir_all", attempt |-> n, res |-> res]
Logged(text, n) == [op |-> "debug", text |-> text, attempt |-> n]

\* browser.close().await, mapped to BrowserLaunch and returned with `?` on
\* failure; otherwise the handle is dropped and close sleeps once.
close_browser ==
    /\ cl_pc = "close"
    /\ \E ok \in BOOLEAN :
         IF ok
         THEN /\ cl_pc' = "exists"
              /\ cl_trace' = Append(cl_trace, Slept(CLEANUP_WAIT_MS))
              /\ cl_ret' = cl_ret
         ELSE /\ cl_pc' = "done"
              /\ cl_ret' = Err("BrowserLaunch")
              /\ cl_trace' = cl_trace
    /\ UNCHANGED <<cl_dir, cl_attempt>>
    /\ UNCHANGED <<pagesVars, parseVars, exVars, keyVars, navVars, cmdVars>>

\* `if self.user_data_dir.exists()`: the loop is entered with attempt 1,
\* or skipped and Ok(()) returned.
close_exists ==
    /\ cl_pc = "exists"
    /\ IF cl_dir # None
       THEN /\ cl_pc' = "remove"
            /\ cl_attempt' = 1
            /\ cl_ret' = cl_ret
       ELSE /\ cl_pc' = "done"
            /\ cl_attempt' = cl_attempt
            /\ cl_ret' = Ok("unit")
    /\ UNCHANGED <<cl_dir, cl_trace>>
    /\ UNCHANGED <<pagesVars, parseVars, exVars, keyVars, navVars, cmdVars>>

\* `attempt < 3`, the guard of the retrying match arm.
may_retry_always(n) == TRUE
may_retry(n) == n < CLEANUP_ATTEMPTS

\* One iteration of the cleanup loop: remove_dir_all, then `break` on Ok,
\* a debug line and a sleep on an early failure, a debug line alone on the
\* last one.  A failed remove_dir_all may have removed some entries.
close_remove ==
    /\ cl_pc = "remove"
    /\ cl_attempt <= CLEANUP_ATTEMPTS
    /\ \/ /\ cl_dir' = None
          /\ cl_trace' = Append(cl_trace, Removed(cl_attempt, Ok("unit")))
          /\ cl_pc' = "done"
          /\ cl_ret' = Ok("unit")
          /\ cl_attempt' = cl_attempt
       \/ \E e \in RemoveErrors, left \in SUBSET cl_dir.val :
            /\ cl_dir' = Some(left)
            /\ IF may_retry(cl_attempt)
               THEN /\ cl_trace' = cl_trace \o
                        << Removed(cl_attempt, Err(e)),
                           Logged("retrying", cl_attempt),
                           Slept(CLEANUP_WAIT_MS) >>
                    /\ cl_attempt' = cl_attempt + 1
                    /\ IF cl_attempt + 1 <= CLEANUP_ATTEMPTS
                       THEN /\ cl_pc' = "remove"
                            /\ cl_ret' = cl_ret
                       ELSE /\ cl_pc' = "done"
                            /\ cl_ret' = Ok("unit")
               ELSE /\ cl_trace' = cl_trace \o
                        << Removed(cl_attempt, Err(e)),
                           Logged("will be cleaned by OS", cl_attempt) >>
                    /\ cl_attempt' = cl_attempt
                    /\ cl_pc' = "done"
                    /\ cl_ret' = Ok("unit")
    /\ UNCHANGED <<pagesVars, parseVars, exVars, keyVars, navVars, cmdVars>>


\* ---------------------------------------------------------- specifications
NavIdle ==
    /\ npc = "idle"
    /\ max_retries = 0
    /\ delay_ms = 0
    /\ attempt = 0
    /\ cf_attempt = 0
    /\ polls = 0
    /\ last_err = None
    /\ nav_ret = Pending
    /\ retry_ret = Pending
    /\ attempts = <<>>
    /\ backoffs = <<>>
    /\ checks = <<>>
    /\ round_polls = <<>>
    /\ clicks = <<>>

PagesIdle ==
    /\ fn_limit = 0
    /\ fn_pages = -1

ParseIdle ==
    /\ pp_in = <<>>
    /\ pp_out = Pending
    /\ sp_out = Pending

ExIdle ==
    /\ ex_pc = "off"
    /\ page = [ld |-> None, js |-> None, blob |-> None, dom |-> NoDom]
    /\ ex_currency = "USD"
    /\ ex_ret = Pending
    /\ ex_pre = None
    /\ ex_src = "none"

KeyIdle ==
    /\ k_a = NoRequest
    /\ k_b = NoRequest
    /\ k_file = Pending
    /\ k_hit = Pending

CloseIdle ==
    /\ cl_pc = "off"
    /\ cl_dir = None
    /\ cl_attempt = 0
    /\ cl_ret = Pending
    /\ cl_trace = <<>>

FnIdle ==
    /\ PagesIdle
    /\ ParseIdle
    /\ ExIdle
    /\ KeyIdle
    /\ CloseIdle

EmptyCache ==
    /\ now = 0
    /\ files = [k \in Kinds |-> NoFile]
    /\ forced = [k \in Kinds |-> None]
    /\ cut = FALSE

CmdOff ==
    /\ EmptyCache
    /\ cmds = 0
    /\ cmd = [kind |-> "none", no_cache |-> FALSE, limit |-> 0]
    /\ pc = "off"
    /\ browser_ref = None
    /\ launches = 0
    /\ navs = 0
    /\ closes = 0
    /\ page_num = 0
    /\ total_pages = 0
    /\ all_products = <<>>
    /\ total_results = None
    /\ output = None
    /\ ret = Pending
    /\ stat = NoFile
    /\ cache_got = Pending
    /\ write_res = Pending
    /\ record = None
    /\ fetched = <<>>
    /\ delays = <<>>

\* The Navigator alone.
InitNav ==
    /\ \E m \in 0 .. MaxRetries, d \in Delays : NavInitWith(m, d)
    /\ FnIdle
    /\ CmdOff

NextNav ==
    \/ navigate_goto
    \/ navigate_challenge_check
    \/ navigate_challenge_poll
    \/ navigate_content
    \/ navigate_with_retry_match

SpecNav == InitNav /\ [][NextNav]_vars

\* pages_needed alone.
pages_needed_call ==
    /\ fn_pages = -1
    /\ fn_pages' = pages_needed(fn_limit)
    /\ UNCHANGED <<fn_limit, parseVars, exVars, keyVars, closeVars, navVars, cmdVars>>

InitPages ==
    /\ fn_limit \in 0 .. MaxPureLimit
    /\ fn_pages = -1
    /\ ParseIdle
    /\ ExIdle
    /\ KeyIdle
    /\ CloseIdle
    /\ NavIdle
    /\ CmdOff

NextPages == pages_needed_call

SpecPages == InitPages /\ [][NextPages]_vars

\* parse_price_str alone, on every text of PriceTexts.
InitParse ==
    /\ pp_in \in PriceTexts
    /\ pp_out = Pending
    /\ sp_out = Pending
    /\ PagesIdle
    /\ ExIdle
    /\ KeyIdle
    /\ CloseIdle
    /\ NavIdle
    /\ CmdOff

NextParse ==
    \/ parse_price_str_call
    \/ parse_price_call

SpecParse == InitParse /\ [][NextParse]_vars

\* extract_product alone, on every page of the sets above.
InitExtract ==
    /\ ex_pc = "json_ld"
    /\ \E l \in LdDocs, j \in JsDocs, b \in BlobDocs, d \in DomDocs :
         page = [ld |-> l, js |-> j, blob |-> b, dom |-> d]
    /\ ex_currency \in Currencies
    /\ ex_ret = Pending
    /\ ex_pre = None
    /\ ex_src = "none"
    /\ PagesIdle
    /\ ParseIdle
    /\ KeyIdle
    /\ CloseIdle
    /\ NavIdle
    /\ CmdOff

NextExtract ==
    \/ extract_product_json_ld
    \/ extract_product_js_globals
    \/ extract_product_next_data

SpecExtract == InitExtract /\ [][NextExtract]_vars

\* search_key alone: one request stored, another looked up.
InitKey ==
    /\ k_a \in Requests
    /\ k_b \in Requests
    /\ k_file = Pending
    /\ k_hit = Pending
    /\ PagesIdle
    /\ ParseIdle
    /\ ExIdle
    /\ CloseIdle
    /\ NavIdle
    /\ CmdOff

NextKey ==
    \/ set_search_key
    \/ get_search_key

SpecKey == InitKey /\ [][NextKey]_vars

\* BrowserSession::close alone, on a profile directory that launch created
\* and Chrome filled, or that is gone already.
InitClose ==
    /\ cl_pc = "close"
    /\ cl_dir \in {None} \cup {Some(d) : d \in SUBSET ProfileEntries}
    /\ cl_attempt = 0
    /\ cl_ret = Pending
    /\ cl_trace = <<>>
    /\ PagesIdle
    /\ ParseIdle
    /\ ExIdle
    /\ KeyIdle
    /\ NavIdle
    /\ CmdOff

NextClose ==
    \/ close_browser
    \/ close_exists
    \/ close_remove

SpecClose == InitClose /\ [][NextClose]_vars

\* One invocation of `search` on an empty cache.
InitSearch ==
    /\ EmptyCache
    /\ cmds = 1
    /\ \E nc \in BOOLEAN, l \in SearchLimits : CmdStart("search", nc, l)
    /\ NavIdle
    /\ FnIdle

NextSearch ==
    \/ cmd_search_cache_check
    \/ get_or_launch_browser
    \/ cmd_search_page
    \/ cmd_search_finish
    \/ main_cleanup

SpecSearch == InitSearch /\ [][NextSearch]_vars

\* One invocation of either command, over a cache directory that holds a
\* fresh artifact or none per kind.
StoredSearch ==
    [query |-> "q", total_results |-> Some(1000),
     products |-> [i \in 1 .. 3 |-> <<1, i>>]]
StoredProduct == [product_id |-> "p", name |-> "A"]

InitInvocation ==
    /\ now = 0
    /\ forced = [k \in Kinds |-> None]
    /\ cut = FALSE
    /\ \E s \in {NoFile, File(0, StoredSearch)},
          p \in {NoFile, File(0, StoredProduct)} :
         files = [k \in Kinds |-> IF k = "search" THEN s ELSE p]
    /\ cmds = 1
    /\ \E k \in Kinds, nc \in BOOLEAN, l \in SearchLimits :
         CmdStart(k, nc, IF k = "search" THEN l ELSE 0)
    /\ NavIdle
    /\ FnIdle

NextInvocation ==
    \/ cmd_search_cache_check
    \/ cmd_product_cache_check
    \/ get_or_launch_browser
    \/ cmd_search_page
    \/ cmd_search_finish
    \/ cmd_product_fetch
    \/ main_cleanup

SpecInvocation == InitInvocation /\ [][NextInvocation]_vars

\* Invocations of the program one after another over one cache directory.
Init ==
    /\ EmptyCache
    /\ cmds = 0
    /\ cmd = [kind |-> "none", no_cache |-> FALSE, limit |-> 0]
    /\ pc = "idle"
    /\ browser_ref = None
    /\ launches = 0
    /\ navs = 0
    /\ closes = 0
    /\ page_num = 0
    /\ total_pages = 0
    /\ all_products = <<>>
    /\ total_results = None
    /\ output = None
    /\ ret = Pending
    /\ stat = NoFile
    /\ cache_got = Pending
    /\ write_res = Pending
    /\ record = None
    /\ fetched = <<>>
    /\ delays = <<>>
    /\ NavIdle
    /\ FnIdle

Next ==
    \/ invoke
    \/ cmd_search_cache_check
    \/ cmd_product_cache_check
    \/ get_or_launch_browser
    \/ cmd_search_page
    \/ cmd_search_finish
    \/ cmd_product_fetch
    \/ main_cleanup

Spec == Init /\ [][Next]_vars

\* ------------------------------------------------- claims on the Navigator
\* Every check of the running (or last) navigate call saw the challenge.
AllChallenged == checks # <<>> /\ \A i \in DOMAIN checks : checks[i]
\* navigate has returned and navigate_with_retry has not yet started another.
NavigateReturned == npc \in {"match", "done"}
IsErr(r) == r.tag = "Err"
IsOk(r) == r.tag = "Ok"

\* C4: when every challenge check of a navigate call sees the challenge
\* marker, the call goes through 3 challenge rounds (two full wait rounds of
\* 12 polls, then the third check) and returns CloudflareBlocked(3); it never
\* reads or returns HTML; and a CloudflareBlocked error always carries 3.
C4_ChallengeCap ==
    /\ cf_attempt <= MAX_CLOUDFLARE_RETRIES
    /\ AllChallenged => npc # "content"
    /\ (NavigateReturned /\ AllChallenged) =>
          /\ nav_ret = Err([kind |-> "CloudflareBlocked", n |-> 3])
          /\ cf_attempt = 3
          /\ round_polls = <<12, 12>>
          /\ Len(clicks) = 2
    /\ \A i \in DOMAIN attempts :
          (IsErr(attempts[i]) /\ attempts[i].val.kind = "CloudflareBlocked")
             => attempts[i].val.n = 3
C4_Witness ==
    /\ npc = "match"
    /\ AllChallenged
    /\ nav_ret = Err(CloudflareBlocked(3))
    /\ Len(checks) = 27

\* Steps navigate_with_retry can still take: a bound that every step lowers.
AttemptSteps == 4 + (MAX_CLOUDFLARE_RETRIES + 1) * (total_checks + 2)
NavMeasure ==
    (max_retries + 1 - attempt) * AttemptSteps
      + (CASE npc = "goto"    -> AttemptSteps - 2
           [] npc = "check"   -> 2 + (MAX_CLOUDFLARE_RETRIES + 1 - cf_attempt) * (total_checks + 2)
           [] npc = "wait"    -> 1 + (MAX_CLOUDFLARE_RETRIES + 1 - cf_attempt) * (total_checks + 2) - polls
           [] npc = "content" -> 2
           [] npc = "match"   -> 1
           [] OTHER           -> 0)

C5_State ==
    /\ Len(attempts) <= max_retries + 1
    /\ attempt <= max_retries + 1
    /\ polls < total_checks
    /\ \A i \in 1 .. Len(attempts) - 1 : IsErr(attempts[i])
    /\ (npc = "done" /\ IsOk(retry_ret)) =>
          /\ retry_ret = Last(attempts)
          /\ retry_ret.val = [kind |-> "Html", n |-> Len(attempts)]
    /\ (npc = "done" /\ max_retries = 2) =>
          /\ Len(attempts) <= 3
          /\ retry_ret \in NavResults
    /\ (npc # "done") => (retry_ret = Pending /\ ENABLED NextNav)
    /\ (npc = "done") => (retry_ret # Pending /\ ~ ENABLED NextNav)
    /\ NavMeasure >= 0

\* C5: navigate_with_retry runs navigate at most max_retries + 1 times (3
\* times for the callers' 2) and always terminates: before it returns a step
\* is always possible and every step lowers a non-negative bound; it returns
\* the HTML of the first successful attempt and makes no attempt after a
\* success.
C5_BoundedRetry == [] C5_State /\ [][NavMeasure' < NavMeasure]_vars
C5_Witness ==
    /\ npc = "done"
    /\ max_retries = 2
    /\ Len(attempts) = 3
    /\ IsOk(retry_ret)

\* C6 as stated: the wait after failed attempt n is 2^(n-1) times the
\* configured base delay, the first wait being the base delay itself.
C6_Original ==
    \A i \in DOMAIN backoffs :
        backoffs[i].secs * 1000 = delay_ms * Pow2(backoffs[i].after - 1)

\* C6, amended: the wait after failed attempt n is 2^(n-1) seconds (1 s, then
\* doubling), whatever the configured delay; every failed attempt but the
\* final one is followed by exactly one wait, and no wait follows the final
\* attempt or a successful one.
C6_Backoff ==
    /\ \A i \in DOMAIN backoffs :
          /\ backoffs[i].after = i
          /\ IsErr(attempts[i])
          /\ i <= max_retries
          /\ backoffs[i].secs = IF i = 1 THEN 1 ELSE 2 * backoffs[i - 1].secs
    /\ (npc \notin {"match", "done"}) => Len(backoffs) = Len(attempts)
    /\ (npc = "match") => Len(backoffs) = Len(attempts) - 1
    /\ (npc = "done") => Len(backoffs) = Len(attempts) - 1
C6_Witness ==
    /\ npc = "done"
    /\ IsErr(retry_ret)
    /\ delay_ms = 2000
    /\ Len(attempts) = 3
    /\ Len(backoffs) = 2
    /\ backoffs[2].secs = 2

\* C7: an error of any kind in a navigate call is followed by another call
\* while attempts remain; navigate_with_retry returns an error only after
\* max_retries + 1 failed calls, and that error is the last call's.
C7_LastError ==
    /\ (npc = "done" /\ IsErr(retry_ret)) =>
          /\ Len(attempts) = max_retries + 1
          /\ \A i \in DOMAIN attempts : IsErr(attempts[i])
          /\ retry_ret = Last(attempts)
    /\ (npc = "done" /\ Len(attempts) < max_retries + 1) => IsOk(retry_ret)
    /\ (npc \notin {"match", "done"}) =>
          /\ attempt = Len(attempts) + 1
          /\ (attempts # <<>> => last_err = Some(Last(attempts).val))
C7_Witness ==
    /\ npc = "done"
    /\ attempts = <<Err(Navigation(1)), Err(Navigation(2)),
                    Err(CloudflareBlocked(3))>>
    /\ retry_ret = Err(CloudflareBlocked(3))

\* ------------------------------------------------------ claims on the cache
\* The cache lookup of the running invocation has been made.
AfterCheck == cache_got # Pending
\* The lookup found a file whose content parses.
StatValid == stat # NoFile /\ stat.data # Corrupt
Hit == AfterCheck /\ cache_got # None

\* C1 as stated: with reads enabled a stored artifact is a hit when its age is
\* below the window (1 hour for search, 24 hours for product) and a miss when
\* its age equals or exceeds the window.
C1_Original ==
    (AfterCheck /\ ~ cmd.no_cache /\ StatValid) =>
        (Hit <=> now - stat.mtime < (IF cmd.kind = "search" THEN 3600 ELSE 86400))

\* C1, amended: with reads enabled a stored artifact is a hit, returned as
\* stored, when its age is at most the window (3600 s for search, 86400 s for
\* product), the boundary included, and a miss when its age exceeds the window.
C1_CacheFreshness ==
    (AfterCheck /\ ~ cmd.no_cache /\ StatValid) =>
        /\ Hit <=> now - stat.mtime <= (IF cmd.kind = "search" THEN 3600 ELSE 86400)
        /\ Hit => cache_got = Some(stat.data)
C1_Witness ==
    /\ cmd.kind = "search"
    /\ ~ cmd.no_cache
    /\ StatValid
    /\ now - stat.mtime = 3600
    /\ Hit
    /\ pc = "end"

\* The record the last successful --no-cache invocation for this kind fetched
\* was fetched less than the window ago.
InsideRefreshWindow ==
    /\ forced[cmd.kind] # None
    /\ now - forced[cmd.kind].val.at < (IF cmd.kind = "search" THEN 3600 ELSE 86400)
\* The invocation is a hit that printed the refreshed record (a search: its
\* first `limit` summaries).
ReturnsRefreshed ==
    LET r == forced[cmd.kind].val.data IN
    /\ cache_got = Some(r)
    /\ ret = OkUnit
    /\ output = Some(IF cmd.kind = "search"
                     THEN [r EXCEPT !.products =
                             IF Len(@) > cmd.limit THEN SubSeq(@, 1, cmd.limit) ELSE @]
                     ELSE r)

C3_WriteFailureNonFatal ==
    (write_res # Pending /\ write_res.tag = "Err") =>
        /\ record # None
        /\ output = record
        /\ ret = OkUnit
        /\ pc \in {"cleanup", "end"}
C3_Witness ==
    /\ pc = "end"
    /\ write_res = Err(CacheError)
    /\ files[cmd.kind] = NoFile
    /\ output = record
    /\ record # None
    /\ ret = OkUnit

\* ------------------------------------------------- claims on pages_needed
\* C8: pages_needed(limit) is the ceiling of limit / 48: the least number of
\* pages of 48 that hold limit results; 0 for 0, 1 for 10 and 48, 2 for 49.
C8_PagesNeeded ==
    (fn_pages # -1) =>
        /\ fn_pages >= 0
        /\ fn_pages * 48 >= fn_limit
        /\ (fn_pages - 1) * 48 < fn_limit
        /\ (fn_limit = 0 => fn_pages = 0)
        /\ (fn_limit = 10 => fn_pages = 1)
        /\ (fn_limit = 48 => fn_pages = 1)
        /\ (fn_limit = 49 => fn_pages = 2)
C8_Witness == fn_limit = 49 /\ fn_pages = 2

\* -------------------------------------------------- claims on cmd_search
CmdReturned == pc \in {"cleanup", "end"}
EndedOnEmptyPage == CmdReturned /\ fetched # <<>> /\ Last(fetched).n = 0

\* What is common to C9 as stated and as amended: pages are fetched in the
\* order 1, 2, ..., none once the accumulated count has reached the limit,
\* none after a page that yielded zero products.
PagesInOrder ==
    /\ \A i \in DOMAIN fetched :
          /\ fetched[i].page = i
          /\ fetched[i].before < cmd.limit
    /\ \A i \in 1 .. Len(fetched) - 1 : fetched[i].n > 0

\* C9 as stated: ... and a page yielding zero products is not an error.
C9_Original ==
    /\ PagesInOrder
    /\ EndedOnEmptyPage => ret = OkUnit

\* C9, amended: pages are fetched in the order 1, 2, ..., one at a time, and
\* fetching stops once the accumulated count reaches the limit or a fetched
\* page yields zero products; a page after the first that yields zero
\* products ends the results without error, while a first page that yields
\* zero products makes the command fail with "No search results found".
C9_Pagination ==
    /\ PagesInOrder
    /\ (EndedOnEmptyPage /\ Len(fetched) > 1) => ret = OkUnit
    /\ (EndedOnEmptyPage /\ Len(fetched) = 1) =>
          (ret = Err([kind |-> "NoSearchResults", n |-> 0]) /\ output = None)
C9_Witness ==
    /\ pc = "end"
    /\ Len(fetched) = 2
    /\ fetched[2].n = 0
    /\ page_num = 2
    /\ total_pages = 3
    /\ ret = OkUnit

\* The products of the fetched pages in site order, page 1 first.
RECURSIVE SiteOrder(_)
SiteOrder(f) ==
    IF f = <<>> THEN <<>>
    ELSE SiteOrder(SubSeq(f, 1, Len(f) - 1))
            \o [i \in 1 .. Last(f).n |-> <<Last(f).page, i>>]
Min(a, b) == IF a < b THEN a ELSE b

\* C10: on a cache miss a search that succeeds prints exactly min(limit, N)
\* summaries, N the number of products of the fetched pages: the first
\* min(limit, N) of them in site order, page 1 first; 3 cards on the first
\* page with limit 10 give exactly 3 summaries.
C10_ResultSize ==
    (ret = OkUnit /\ cache_got = None /\ cmd.kind = "search") =>
        LET all == SiteOrder(fetched)
            got == output.val.products
        IN /\ Len(got) = Min(cmd.limit, Len(all))
           /\ got = SubSeq(all, 1, Len(got))
           /\ got[1] = <<1, 1>>
           /\ (cmd.limit = 10 /\ fetched[1].n = 3) => Len(got) = 3
C10_Witness ==
    /\ pc = "end"
    /\ cmd.limit = 10
    /\ cache_got = None
    /\ fetched = <<[page |-> 1, n |-> 3, before |-> 0]>>
    /\ ret = OkUnit
    /\ Len(output.val.products) = 3


\* ------------------------------------------- claims on parse_price_str
\* The claim's rule, read off its words. A text of digits and the decimal
\* separator d reads as a number when it has a digit and at most one d: the
\* digits, with as many decimals as there are characters after d.
CountOf(s, c) == Cardinality({i \in DOMAIN s : s[i] = c})
ReadWith(s, d) ==
    LET ds == remove(s, d)
        p == find(s, d)
    IN IF CountOf(s, d) > 1 \/ ds = <<>> THEN None
       ELSE Some(Dec(digits_value(ds, 0), IF p = 0 THEN 0 ELSE Len(s) - p))
PriceRule(s) ==
    LET kept(c) == is_ascii_digit(c) \/ c \in {".", ","}
        k == SelectSeq(s, kept)
        dots == {i \in DOMAIN k : k[i] = "."}
        commas == {i \in DOMAIN k : k[i] = ","}
        later == CHOOSE i \in dots \cup commas :
                    \A j \in dots \cup commas : j <= i
        three_follow == \E i \in commas :
                          /\ \A j \in commas : j <= i
                          /\ Len(k) - i = 3
    IN IF k = <<>> THEN None
       ELSE IF dots # {} /\ commas # {}
       THEN IF k[later] = "," THEN ReadWith(remove(k, "."), ",")
            ELSE ReadWith(remove(k, ","), ".")
       ELSE IF commas # {}
       THEN IF three_follow THEN ReadWith(remove(k, ","), ".")
            ELSE ReadWith(k, ",")
       ELSE ReadWith(k, ".")

\* C16: parse_price_str follows the normalization rule (drop every character
\* but digits, '.' and ','; nothing left gives None; with both separators the
\* later one is the decimal separator and the other is removed; with ','
\* alone it is a thousands separator when exactly three digits follow the
\* last comma and a decimal separator otherwise), and so "1,234.56" and
\* "1.234,56" give 1234.56, "23,99" gives 23.99, "1,000" gives 1000 and ""
\* gives None.
C16_PriceNormalization ==
    pp_out # Pending =>
      /\ pp_out = PriceRule(pp_in)
      /\ pp_in = <<"1", ",", "2", "3", "4", ".", "5", "6">>
           => pp_out = Some([m |-> 123456, s |-> 2])
      /\ pp_in = <<"1", ".", "2", "3", "4", ",", "5", "6">>
           => pp_out = Some([m |-> 123456, s |-> 2])
      /\ pp_in = <<"2", "3", ",", "9", "9">> => pp_out = Some([m |-> 2399, s |-> 2])
      /\ pp_in = <<"1", ",", "0", "0", "0">> => pp_out = Some([m |-> 1000, s |-> 0])
      /\ pp_in = <<>> => pp_out = None
C16_Witness ==
    /\ pp_in = <<"1", ".", "2", "3", "4", ",", "5", "6">>
    /\ pp_out = Some([m |-> 123456, s |-> 2])
\* --------------------------------------------- claims on extract_product
ExReturned == ex_pc = "done"
ExOk == ExReturned /\ ex_ret.tag = "Ok"

\* C11 as stated: in every record extract_product returns, an original
\* price that is present is greater than the price.
C11_Original ==
    ExOk => (ex_ret.val.original_price # None
               => DecGt(ex_ret.val.original_price.val, ex_ret.val.price))

\* C12 as stated: the price of every record extract_product returns is
\* non-negative.
C12_Original ==
    ExOk => ex_ret.val.price.m >= 0
\* The name each source carries for the page, "" when it carries none.
LdName == IF page.ld = None THEN "" ELSE unwrap_or(as_str(page.ld.val.name), "")
JsName ==
    IF page.js = None THEN ""
    ELSE unwrap_or(as_str(or_else(page.js.val.ihr.prdNm, page.js.val.pd.name)), "")
BlobName ==
    IF page.blob = None \/ page.blob.val.product.t # "obj" THEN ""
    ELSE unwrap_or(as_str(or_else(page.blob.val.product.title,
                                  page.blob.val.product.name)), "")
DomName == unwrap_or(page.dom.h1, "")
\* The first source, in the order of the cascade, that carries a name.
FirstNamed ==
    IF LdName # "" THEN "json_ld"
    ELSE IF JsName # "" THEN "js_globals"
    ELSE IF BlobName # "" THEN "next_data"
    ELSE IF DomName # "" THEN "dom"
    ELSE "none"
NameOf(src) ==
    IF src = "json_ld" THEN LdName
    ELSE IF src = "js_globals" THEN JsName
    ELSE IF src = "next_data" THEN BlobName
    ELSE DomName
\* A product page for the DOM strategy: no not-found marker, and a name that
\* is not the placeholder.
DomProductPage ==
    ~page.dom.not_found /\ DomName \notin {"", UNKNOWN_PRODUCT}

\* C13: extract_product tries JSON-LD, JS globals, the page-data blob and
\* the DOM in this order, each only after the ones before gave no name; the
\* record it returns has the name of the first source that carries one; a
\* JSON-LD name wins over a different DOM name; a product page with DOM
\* markup only gives the DOM name; and no record comes from a JSON-LD,
\* JS-global or blob source whose name is empty.
C13_Cascade ==
    /\ ex_pc = "js_globals" => LdName = ""
    /\ ex_pc = "next_data" => LdName = "" /\ JsName = ""
    /\ ExOk => /\ ex_src = FirstNamed
               /\ ex_ret.val.name = NameOf(FirstNamed)
               /\ ex_ret.val.name # ""
    /\ ExReturned /\ LdName # "" =>
         ExOk /\ ex_src = "json_ld" /\ ex_ret.val.name = LdName
    /\ ExReturned /\ page.ld = None /\ page.js = None /\ page.blob = None
         /\ DomProductPage =>
         ExOk /\ ex_src = "dom" /\ ex_ret.val.name = DomName
    /\ ExReturned /\ ex_src = "dom" =>
         LdName = "" /\ JsName = "" /\ BlobName = ""
C13_Witness ==
    /\ ExOk
    /\ ex_src = "js_globals"
    /\ page.ld # None
    /\ LdName = ""
    /\ DomName \notin {"", JsName}
    /\ ex_ret.val.name = JsName

\* What the DOM pass must leave alone in a record of JSON-LD or JS globals.
Enriched == ExOk /\ ex_src \in {"json_ld", "js_globals"}
KeptIfSet(f) == ex_pre.val[f] # None => ex_ret.val[f] = ex_pre.val[f]
KeepsPopulated ==
    /\ ex_ret.val.name = ex_pre.val.name
    /\ ex_pre.val.brand # "" => ex_ret.val.brand = ex_pre.val.brand
    /\ \A f \in {"rating", "review_count", "description", "product_code", "upc"} :
         KeptIfSet(f)
    /\ ex_ret.val.currency = ex_pre.val.currency
    /\ ex_ret.val.product_url = ex_pre.val.product_url
\* The DOM's list and discount price, when the list price is the greater.
DomListed ==
    /\ page.dom.input # None
    /\ and_then_parse_price_str(page.dom.input.val.list) # None
    /\ and_then_parse_price_str(page.dom.input.val.disc) # None
    /\ DecGt(and_then_parse_price_str(page.dom.input.val.list).val,
             and_then_parse_price_str(page.dom.input.val.disc).val)
DomList == and_then_parse_price_str(page.dom.input.val.list).val
DomDisc == and_then_parse_price_str(page.dom.input.val.disc).val

C15_Original ==
    ExOk =>
      /\ ex_ret.val.name \notin {"", UNKNOWN_PRODUCT}
      /\ ~(/\ ex_ret.val.price = Zero
           /\ ex_ret.val.rating = None
           /\ ex_ret.val.review_count = None)

\* The currency field the page carries for the strategy that answered, and
\* the currency its price text shows.
CurrencyField ==
    IF ex_src = "json_ld" /\ page.ld.val.offers.t = "obj"
       /\ as_str(page.ld.val.offers.priceCurrency) # None
    THEN as_str(page.ld.val.offers.priceCurrency)
    ELSE IF ex_src = "next_data" /\ as_str(page.blob.val.product.currency) # None
    THEN as_str(page.blob.val.product.currency)
    ELSE IF page.dom.meta_currency # None
    THEN Some(to_uppercase(page.dom.meta_currency.val))
    ELSE None
CurrencySymbol ==
    IF page.dom.price_bdi = None THEN None
    ELSE detect_currency_from_text(page.dom.price_bdi.val)

\* C17 as stated: the currency of a returned record is the page's currency
\* field when there is one, else the code of the price text's symbol, else
\* the caller's currency.
C17_Original ==
    ExOk =>
      ex_ret.val.currency =
        IF CurrencyField # None THEN CurrencyField.val
        ELSE IF CurrencySymbol # None THEN CurrencySymbol.val
        ELSE ex_currency
\* ------------------------------------------ claims on the browser session
CacheAnswered == cache_got \notin {Pending, None}

\* C18: an invocation creates at most one browser session and creates it
\* late: none exists before the cache lookup missed, get_or_launch_browser
\* creates one only while the handle is empty, and an invocation answered
\* from the cache creates no session and navigates nowhere.
C18_LazyLaunch ==
    /\ launches <= 1
    /\ browser_ref # None => launches = 1
    /\ launches = 1 => cache_got = None /\ pc \notin {"search", "product", "launch"}
    /\ navs > 0 => launches = 1
    /\ CacheAnswered => launches = 0 /\ navs = 0 /\ browser_ref = None
C18_Witness ==
    /\ cmds = 2
    /\ pc = "end"
    /\ CacheAnswered
    /\ ret = OkUnit
    /\ launches = 0
    /\ files[cmd.kind] # NoFile

\* C19 as stated: when the invocation ends, a session that was created has
\* been closed, whether the command succeeded or failed.
C19_Original ==
    pc = "end" => (launches = 1 => closes = 1 /\ browser_ref = None)

\* C20: when a command ends with an error, the invocation has printed
\* nothing and has written nothing to the cache.
C20_NoPartialOutput ==
    pc = "end" /\ IsErr(ret) =>
      /\ output = None
      /\ write_res = Pending
      /\ record = None
C20_Witness ==
    /\ pc = "end"
    /\ IsErr(ret)
    /\ ret.val \in {Navigation(1), Navigation(2)}
    /\ cmd.kind = "search"
    /\ Len(fetched) >= 1
    /\ all_products # <<>>
    /\ output = None

\* ------------------------------------- claims on the challenge-wait round
\* The index in `checks` of the check that opened wait round r of the running
\* (or last) navigate call: each round before it holds that check and its
\* polls.
RECURSIVE RoundStart(_)
RoundStart(r) ==
    IF r <= 1 THEN 1 ELSE RoundStart(r - 1) + 1 + round_polls[r - 1]
\* Wait rounds entered by the running (or last) navigate call.
RoundsEntered == Len(round_polls) + (IF npc = "wait" THEN 1 ELSE 0)

\* C21: a challenge detected in a round that is not the last is followed by
\* the checkbox click, whose failure changes nothing, and then by polls one
\* second apart, at most 12 in the round; the round ends at the first poll
\* that finds the challenge cleared, and otherwise after the 12th.
C21_WaitRound ==
    /\ CHECK_INTERVAL_MS = 1000
    /\ Len(clicks) = RoundsEntered
    /\ RoundsEntered <= MAX_CLOUDFLARE_RETRIES - 1
    /\ \A r \in DOMAIN round_polls :
          LET s == RoundStart(r)
              n == round_polls[r]
          IN /\ n \in 1 .. 12
             /\ checks[s]
             /\ \A k \in 1 .. n - 1 : checks[s + k]
             /\ n < 12 => ~ checks[s + n]
    /\ npc = "wait" =>
          LET s == RoundStart(Len(round_polls) + 1)
          IN /\ polls < 12
             /\ Len(checks) = s + polls
             /\ \A k \in 0 .. polls : checks[s + k]
    /\ npc # "wait" => polls = 0
C21_Witness ==
    /\ npc = "match"
    /\ IsOk(nav_ret)
    /\ clicks = <<FALSE, TRUE>>
    /\ round_polls = <<12, 3>>
    /\ checks[13]

\* C22: navigate reads the page content, and returns Ok(html), only when the
\* last challenge check it made found no challenge; a wait round that ran
\* out with the challenge still present is followed by another check.
C22_ContentAfterClear ==
    /\ npc = "content" => (checks # <<>> /\ ~ Last(checks))
    /\ (NavigateReturned /\ IsOk(nav_ret)) => (checks # <<>> /\ ~ Last(checks))
    /\ (NavigateReturned /\ nav_ret = Err(Navigation(2))) =>
          (checks # <<>> /\ ~ Last(checks))
C22_Witness ==
    /\ npc = "match"
    /\ IsOk(nav_ret)
    /\ round_polls = <<12>>
    /\ checks[13]
    /\ Len(checks) = 14

\* ------------------------------------------- claims on the rate limiting
\* The pagination loop of cmd_search has been left.
LoopOver == pc \in {"finish", "cleanup", "end"} /\ navs >= 1

\* C23 as stated: each rate_limit_delay follows one page fetch and precedes
\* the next, so a request that fetched n pages has executed n - 1 delays, and
\* none after the last page it fetched.
C23_Original ==
    /\ \A i \in DOMAIN delays : delays[i] = i
    /\ Len(delays) <= navs
    /\ LoopOver => Len(delays) = navs - 1

\* --------------------------------------- claims on JSON-LD price selection
\* extract_product returned the record of the JSON-LD block.
FromJsonLd == ex_pc = "done" /\ ex_src = "json_ld"
LdOffers == page.ld.val.offers
\* The flat price field of offers, as a number.
FlatPrice == IF LdOffers.t = "obj" THEN json_f64(LdOffers.price) ELSE None
\* The price-specification list of offers.
HasSpecList == LdOffers.t = "obj" /\ LdOffers.priceSpecification.t = "arr"
SpecItems == LdOffers.priceSpecification.items
IsStrike(e) == as_str(e.priceType) = Some(STRIKETHROUGH)
\* The price of the last entry of the list that is (strike) or is not
\* (~strike) a strikethrough entry.
SpecPrice(strike) ==
    LET S == {i \in DOMAIN SpecItems : IsStrike(SpecItems[i]) = strike}
    IN IF S = {} THEN None
       ELSE json_f64(SpecItems[CHOOSE i \in S : \A j \in S : j <= i].price)
\* What the list alone gives: <<price, original_price>>.
FromSpecList ==
    LET price == IF SpecPrice(FALSE) = None THEN Zero ELSE SpecPrice(FALSE).val
        strike == SpecPrice(TRUE)
    IN <<price,
         IF strike # None /\ DecGt(strike.val, price) THEN strike ELSE None>>
LdPrices == <<ex_pre.val.price, ex_pre.val.original_price>>

\* C24 as stated: when offers carries a price-specification list, the list
\* decides: its non-strikethrough entry is the price and a greater
\* strikethrough entry the original price, also beside a flat price.
C24_Original ==
    (FromJsonLd /\ HasSpecList) => LdPrices = FromSpecList

\* C24, amended: a flat price of offers that reads as a number is the price
\* and leaves the original price unset, with or without a
\* price-specification list; the list decides only when there is no flat
\* price; with neither the price is zero.
C24_FlatPriceFirst ==
    FromJsonLd =>
      LdPrices = IF FlatPrice # None THEN <<FlatPrice.val, None>>
                 ELSE IF HasSpecList THEN FromSpecList
                 ELSE <<Zero, None>>
C24_Witness ==
    /\ FromJsonLd
    /\ HasSpecList
    /\ FlatPrice = Some(Dec(2499, 2))
    /\ FromSpecList = <<Dec(1999, 2), Some(Dec(2499, 2))>>
    /\ LdPrices = <<Dec(2499, 2), None>>

\* ------------------------------------- claims on the price reconciliation
PrePrice == ex_pre.val.price
PostPrice == ex_ret.val.price
\* The DOM carries a list price, and a list and a discount price.
DomHasList ==
    /\ page.dom.input # None
    /\ and_then_parse_price_str(page.dom.input.val.list) # None
DomHasPrices ==
    /\ DomHasList
    /\ and_then_parse_price_str(page.dom.input.val.disc) # None
\* The structural source gave an original price and a positive price.
PreSettled == ex_pre.val.original_price # None /\ DecGt(PrePrice, Zero)

\* C25 as stated: a structural price equal to the DOM list price is replaced
\* by the DOM discount price, whenever that is so; a structural price that
\* differs from the DOM list price and is not zero stays.
C25_Original ==
    Enriched =>
      /\ (DomHasPrices /\ PrePrice = DomList) => PostPrice = DomDisc
      /\ ((~ DomHasList \/ PrePrice # DomList) /\ PrePrice # Zero)
            => PostPrice = PrePrice

\* C25, amended: a structural price within 0.01 of the DOM list price is
\* replaced by the DOM discount price when the DOM list price is greater
\* than the DOM discount price and the structural source did not give both
\* an original price and a positive price; a record with an original price
\* and a positive price keeps its price; and a structural price that is not
\* zero and not within 0.01 of the DOM list price stays.
C25_Reconciliation ==
    Enriched =>
      /\ (DomListed /\ DecNear(PrePrice, DomList) /\ ~ PreSettled)
            => PostPrice = DomDisc
      /\ PreSettled => PostPrice = PrePrice
      /\ ((~ DomHasList \/ ~ DecNear(PrePrice, DomList)) /\ PrePrice # Zero)
            => PostPrice = PrePrice
C25_Witness ==
    /\ Enriched
    /\ DomListed
    /\ PrePrice = DomList
    /\ ~ PreSettled
    /\ PostPrice = DomDisc
    /\ PostPrice # PrePrice

\* ------------------------------------- claims on the search path's prices
\* C26 as stated: the price a search result card's text gives is the number
\* parse_price_str gives for the same text.
C26_Original ==
    (pp_out # Pending /\ sp_out # Pending) => sp_out = pp_out

\* ------------------------------------------- claims on the search cache key
\* C27 as stated: requests that differ in query, sort order or category feed
\* different bytes to the digest, so the lookup of one never finds the
\* artifact stored for another; and a key is 16 hexadecimal characters.
C27_Original ==
    k_hit # Pending =>
      /\ k_file.chars = 16
      /\ k_a # k_b =>
            /\ hasher_input(k_a.query, k_a.sort, k_a.category)
                 # hasher_input(k_b.query, k_b.sort, k_b.category)
            /\ k_hit = None

\* ------------------------------------------ claims on cached search results
SearchHit == cmd.kind = "search" /\ Hit /\ output # None

\* C28 as stated: a search answered from the cache prints what a fetch with
\* its own limit would: never more than the limit, and, when the site has
\* more results than the artifact holds, as many as the limit asks for.
C28_Original ==
    SearchHit =>
      /\ Len(output.val.products) <= cmd.limit
      /\ cut => Len(output.val.products) = cmd.limit

\* ---------------------------------------------------------------- C29
\* The remove_dir_all calls of this close, in order.
IsRemove(ev) == ev.op = "remove_dir_all"
Tries == SelectSeq(cl_trace, IsRemove)
\* browser.close() succeeded: close went on to its first sleep.
BrowserClosed == cl_trace # <<>>

\* C29: after the browser was closed successfully, close calls
\* remove_dir_all at most 3 times, with attempt numbers 1, 2, ...; every
\* call but the last one made has failed (the loop stops at the first
\* success); each failed attempt before the third is followed by a debug
\* line and a 500 ms sleep, and every later attempt is preceded by that
\* sleep; a failed third attempt is followed by one debug line and nothing
\* else; and close returns Ok(()) whatever the attempts returned.
C29_Cleanup ==
    BrowserClosed =>
      /\ Len(Tries) <= CLEANUP_ATTEMPTS
      /\ \A i \in 1..Len(Tries) :
           /\ Tries[i].attempt = i
           /\ i < Len(Tries) => Tries[i].res.tag = "Err"
      /\ \A i \in 1..Len(cl_trace) :
           IsRemove(cl_trace[i]) =>
             /\ cl_trace[i].attempt > 1 =>
                  cl_trace[i - 1] = Slept(CLEANUP_WAIT_MS)
             /\ cl_trace[i].res.tag = "Ok" => i = Len(cl_trace)
             /\ (cl_trace[i].res.tag = "Err"
                   /\ cl_trace[i].attempt < CLEANUP_ATTEMPTS) =>
                  /\ Len(cl_trace) >= i + 2
                  /\ cl_trace[i + 1].op = "debug"
                  /\ cl_trace[i + 2] = Slept(CLEANUP_WAIT_MS)
             /\ (cl_trace[i].res.tag = "Err"
                   /\ cl_trace[i].attempt = CLEANUP_ATTEMPTS) =>
                  /\ Len(cl_trace) = i + 1
                  /\ cl_trace[i + 1].op = "debug"
      /\ cl_pc = "done" => cl_ret = Ok("unit")
      /\ cl_ret \in {Pending, Ok("unit")}

\* Three removals were tried and all failed, the directory is still there,
\* and close has returned Ok(()).
C29_Witness ==
    /\ cl_pc = "done"
    /\ Len(Tries) = CLEANUP_ATTEMPTS
    /\ Tries[CLEANUP_ATTEMPTS].res.tag = "Err"
    /\ cl_dir # None
    /\ cl_ret = Ok("unit")

\* ---------------------------------------------------------------- C30
\* The artifact of kind k can be read back (it is there and it parses).
Readable(fs, k) == fs[k] # NoFile /\ fs[k].data # Corrupt

\* A step that touches an artifact: it is the running command's own kind,
\* the extraction has produced the record, the command outputs that record,
\* and the file, unless the write broke midway, holds exactly it; for a
\* search it has between 1 and --limit products.
WriteStep ==
    \A k \in Kinds :
      files'[k] # files[k] =>
        /\ cmd.kind = k
        /\ write_res = Pending /\ write_res' # Pending
        /\ record' # None
        /\ output' = record'
        /\ ret' = OkUnit
        /\ files'[k] \in {File(now, record'.val), File(now, Corrupt)}
        /\ k = "search" =>
             /\ record'.val.products # <<>>
             /\ Len(record'.val.products) <= cmd.limit
             /\ record'.val.products = truncate(all_products, cmd.limit)

\* Nothing is written before the extraction has succeeded, no stored search
\* artifact is an empty list, and a hit hands back the stored record as it
\* is (for product it is also what the command prints).
WrittenAndRead ==
    /\ write_res # Pending => record # None
    /\ ret \notin {Pending, OkUnit} => write_res = Pending
    /\ Readable(files, "search") => files["search"].data.products # <<>>
    /\ Hit => /\ Readable(files, cmd.kind)
              /\ cache_got.val = files[cmd.kind].data
              /\ cmd.kind = "product" => output = cache_got

====
